---- MODULE Spec2Model ----
(***************************************************************************)
(* Model of the recipe-substitution core: the ingredient canonicalizer,    *)
(* the restriction knowledge base, the unified (canonicalizing) lookup and *)
(* the composite diet reconciliation engine.                               *)
(*                                                                         *)
(* Strings are TLA+ strings, i.e. sequences of characters: Len, \o and     *)
(* SubSeq are the Python len, + and slicing.                               *)
(***************************************************************************)
EXTENDS Integers, Sequences, FiniteSets, TLC

VARIABLES
  pc,                     \* position of the caller: which call has returned
  raw,                    \* the raw ingredient text handed to the canonicalizer or a lookup
  typed,                  \* canonicalizer: number of pieces typed into raw
  canonical,              \* canonicalizer: canonicalize(raw)
  recanonical,            \* canonicalizer: canonicalize(canonicalize(raw))
  asked_diets,            \* the caller's list of diet identifiers
  lookup,                 \* lookups: what the knowledge base and the unified system returned
  common,                 \* lookups: the list find_common_substitutions returned
  common_again,           \* lookups: the list the same call returned in another run
  detected,               \* lookups: the list detect_diet_conflicts returned
  recipe,                 \* reconciler: recipe_ingredients, the caller's list
  sorted_diets,           \* reconciler: local of apply_composite_diets
  current_ingredients,    \* reconciler: local of apply_composite_diets
  substituted_ingredients,\* reconciler: local of apply_composite_diets
  substitution_history,   \* reconciler: local of apply_composite_diets
  diet_changes,           \* reconciler: local of apply_composite_diets
  all_warnings,           \* reconciler: local of apply_composite_diets
  change_log,             \* reconciler: local of apply_composite_diets
  replaced_at,            \* reconciler: the ingredient_index of each change_log entry
  diet_at,                \* reconciler: position of the outer loop in sorted_diets
  ingredient_at,          \* reconciler: position of the inner loop in current_ingredients
  result,                 \* reconciler: the CompositeSubstitutionResult returned
  given_amount,           \* converter: the amount handed to convert
  given_from,             \* converter: the from_unit handed to convert
  given_to,               \* converter: the to_unit handed to convert
  given_ingredient,       \* converter: the ingredient handed to convert
  converted,              \* converter: what convert returned (or that it raised)
  converted_back,         \* converter: what converting the result back returned
  applied_with_units,     \* unit-aware engine: a call of apply_substitution_with_units and its outcome
  substitutions,          \* unit-aware pass: local of process_recipe_with_units
  unchanged_ingredients,  \* unit-aware pass: local of process_recipe_with_units
  warnings,               \* unit-aware pass: local of process_recipe_with_units
  unit_change_log,        \* unit-aware pass: local change_log of process_recipe_with_units
  unit_at,                \* unit-aware pass: position of the loop in recipe
  unit_result,            \* unit-aware pass: the UnitAwareRecipeResult returned
  parsed_amount,          \* converter: the pair parse_amount returned
  recipe_output           \* transformer: the RecipeOutput transform_recipe returned

canonVars == << raw, typed, canonical, recanonical >>

lookupVars == << lookup, common, common_again, detected >>

engineVars ==
  << recipe, sorted_diets, current_ingredients, substituted_ingredients,
     substitution_history, diet_changes, all_warnings, change_log, replaced_at,
     diet_at, ingredient_at, result >>

unitVars ==
  << given_amount, given_from, given_to, given_ingredient, converted, converted_back >>

passVars ==
  << applied_with_units, substitutions, unchanged_ingredients, warnings, unit_change_log,
     unit_at, unit_result, parsed_amount, recipe_output >>

vars == << pc, asked_diets, canonVars, lookupVars, engineVars, unitVars, passVars >>

-----------------------------------------------------------------------------
(* Bounds of the model                                                     *)

\* number of pieces of text a raw ingredient name is typed from
MaxPieces == 3

\* length of the caller's diet list
MaxDiets == 2

\* length of the caller's recipe
MaxIngredients == 3

\* largest amount handed to convert
MaxAmount == 2

\* length of the caller's diet list where the recipe is short
MaxListed == 3

\* length of the caller's recipe where the diet list is long
MaxShort == 2

-----------------------------------------------------------------------------
(* Python string primitives                                                *)

Char(s, i) == SubSeq(s, i, i)

Rest(s, i) == SubSeq(s, i, Len(s))

\* characters matched by the regular expression class \s and by str.strip()
IsSpace(c) == c \in {" ", "\t", "\n", "\r"}

ToLower ==
  [c \in {"A","B","C","D","E","F","G","H","I","J","K","L","M",
          "N","O","P","Q","R","S","T","U","V","W","X","Y","Z"} |->
     CASE c = "A" -> "a" [] c = "B" -> "b" [] c = "C" -> "c" [] c = "D" -> "d"
       [] c = "E" -> "e" [] c = "F" -> "f" [] c = "G" -> "g" [] c = "H" -> "h"
       [] c = "I" -> "i" [] c = "J" -> "j" [] c = "K" -> "k" [] c = "L" -> "l"
       [] c = "M" -> "m" [] c = "N" -> "n" [] c = "O" -> "o" [] c = "P" -> "p"
       [] c = "Q" -> "q" [] c = "R" -> "r" [] c = "S" -> "s" [] c = "T" -> "t"
       [] c = "U" -> "u" [] c = "V" -> "v" [] c = "W" -> "w" [] c = "X" -> "x"
       [] c = "Y" -> "y" [] c = "Z" -> "z"]

\* str.lower()
RECURSIVE Lower(_)
Lower(s) ==
  IF s = "" THEN ""
  ELSE LET c == Char(s, 1)
       IN (IF c \in DOMAIN ToLower THEN ToLower[c] ELSE c) \o Lower(Rest(s, 2))

RECURSIVE LStrip(_)
LStrip(s) ==
  IF s # "" /\ IsSpace(Char(s, 1)) THEN LStrip(Rest(s, 2)) ELSE s

RECURSIVE RStrip(_)
RStrip(s) ==
  IF s # "" /\ IsSpace(Char(s, Len(s))) THEN RStrip(SubSeq(s, 1, Len(s) - 1)) ELSE s

\* str.strip()
Strip(s) == RStrip(LStrip(s))

StartsWith(s, p) == Len(p) <= Len(s) /\ SubSeq(s, 1, Len(p)) = p

EndsWith(s, p) == Len(p) <= Len(s) /\ SubSeq(s, Len(s) - Len(p) + 1, Len(s)) = p

\* the Python test "a in b" on strings
Contains(b, a) ==
  \E i \in 1..(Len(b) - Len(a) + 1) : SubSeq(b, i, i + Len(a) - 1) = a

\* set(s.split()): the set of maximal runs of non-space characters
RECURSIVE WordsFrom(_, _)
WordsFrom(s, word) ==
  IF s = "" THEN (IF word = "" THEN {} ELSE {word})
  ELSE IF IsSpace(Char(s, 1))
       THEN (IF word = "" THEN {} ELSE {word}) \cup WordsFrom(Rest(s, 2), "")
       ELSE WordsFrom(Rest(s, 2), word \o Char(s, 1))

Words(s) == WordsFrom(s, "")

Min(a, b) == IF a <= b THEN a ELSE b

-----------------------------------------------------------------------------
(* IngredientCanonicalizer                                                 *)

AliasGroups ==
  <<
    [canonical |-> "flour", aliases |-> << "ap flour", "white flour", "plain flour", "all-purpose flour", "wheat flour" >>],
    [canonical |-> "almond flour", aliases |-> << "almond meal", "ground almonds", "blanched almond flour" >>],
    [canonical |-> "coconut flour", aliases |-> << "coco flour", "coconut meal" >>],
    [canonical |-> "granulated sugar", aliases |-> << "white sugar", "table sugar", "regular sugar", "sugar", "cane sugar" >>],
    [canonical |-> "brown sugar", aliases |-> << "light brown sugar", "dark brown sugar", "muscovado sugar" >>],
    [canonical |-> "powdered sugar", aliases |-> << "confectioners sugar", "icing sugar", "10x sugar" >>],
    [canonical |-> "milk", aliases |-> << "whole milk", "cow milk", "dairy milk", "regular milk" >>],
    [canonical |-> "butter", aliases |-> << "sweet butter", "unsalted butter", "salted butter", "dairy butter" >>],
    [canonical |-> "cheese", aliases |-> << "cheddar cheese", "cheese", "dairy cheese" >>],
    [canonical |-> "eggs", aliases |-> << "egg", "chicken eggs", "large eggs", "whole eggs" >>],
    [canonical |-> "onion", aliases |-> << "yellow onion", "white onion", "spanish onion", "cooking onion" >>],
    [canonical |-> "garlic", aliases |-> << "garlic cloves", "fresh garlic", "garlic bulb" >>],
    [canonical |-> "olive oil", aliases |-> << "extra virgin olive oil", "evoo", "virgin olive oil" >>],
    [canonical |-> "vegetable oil", aliases |-> << "canola oil", "cooking oil", "neutral oil" >>],
    [canonical |-> "salt", aliases |-> << "table salt", "kosher salt", "sea salt", "fine salt" >>],
    [canonical |-> "black pepper", aliases |-> << "pepper", "ground pepper", "freshly ground pepper" >>],
    [canonical |-> "black beans", aliases |-> << "black turtle beans", "dried black beans" >>],
    [canonical |-> "chickpeas", aliases |-> << "garbanzo beans", "ceci beans" >>],
    [canonical |-> "lentils", aliases |-> << "brown lentils", "green lentils", "red lentils" >>],
    [canonical |-> "white bread", aliases |-> << "sandwich bread", "sliced bread", "wheat bread" >>],
    [canonical |-> "apples", aliases |-> << "apple", "granny smith apples", "red apples" >>],
    [canonical |-> "bananas", aliases |-> << "banana", "ripe bananas", "yellow bananas" >>],
    [canonical |-> "honey", aliases |-> << "raw honey", "wildflower honey", "clover honey" >>],
    [canonical |-> "soy sauce", aliases |-> << "shoyu", "light soy sauce", "dark soy sauce" >>],
    [canonical |-> "tofu", aliases |-> << "bean curd", "silken tofu", "firm tofu", "extra firm tofu" >>]
  >>

\* An insertion-ordered dict is a sequence of [key, value] records.  DictOf is
\* the dict left by performing the stores `puts' in order on an empty dict:
\* a key keeps the place of its first store and the value of its last one.
DictOf(puts) ==
  LET indices == [i \in 1..Len(puts) |-> i]
      IsFirst(i) == \A j \in 1..(i - 1) : puts[j].key # puts[i].key
      LastOf(k) == CHOOSE i \in 1..Len(puts) :
                     puts[i].key = k /\ \A j \in (i + 1)..Len(puts) : puts[j].key # k
      kept == SelectSeq(indices, IsFirst)
  IN [n \in 1..Len(kept) |->
        [key |-> puts[kept[n]].key, value |-> puts[LastOf(puts[kept[n]].key)].value]]

DictHas(d, k) == \E i \in 1..Len(d) : d[i].key = k

DictGet(d, k) == d[CHOOSE i \in 1..Len(d) : d[i].key = k].value

\* _add_alias_group storing the group under its canonical name only
_add_alias_group_canonical_only(group) ==
  << [key |-> group.canonical, value |-> group.canonical] >>

\* the stores of one _add_alias_group call: the group (here its canonical
\* name) under its canonical name, then under each alias
_add_alias_group(group) ==
  << [key |-> group.canonical, value |-> group.canonical] >>
    \o [i \in 1..Len(group.aliases) |->
          [key |-> group.aliases[i], value |-> group.canonical]]

RECURSIVE _build_alias_database(_)
_build_alias_database(groups) ==
  IF groups = << >> THEN << >>
  ELSE _add_alias_group(Head(groups)) \o _build_alias_database(Tail(groups))

\* self.aliases after construction: key -> canonical name of its group
aliases == DictOf(_build_alias_database(AliasGroups))

\* re.sub(r'\s+', ' ', s)
RECURSIVE CollapseSpaces(_)
CollapseSpaces(s) ==
  IF s = "" THEN ""
  ELSE IF IsSpace(Char(s, 1))
       THEN " " \o CollapseSpaces(LStrip(s))
       ELSE Char(s, 1) \o CollapseSpaces(Rest(s, 2))

\* re.sub(r'[,;.]', '', s)
RECURSIVE RemovePunctuation(_)
RemovePunctuation(s) ==
  IF s = "" THEN ""
  ELSE (IF Char(s, 1) \in {",", ";", "."} THEN "" ELSE Char(s, 1))
         \o RemovePunctuation(Rest(s, 2))

Qualifiers == {"fresh", "dried", "frozen", "canned", "organic"}

\* re.sub(r'^(fresh|dried|frozen|canned|organic)\s+', '', s)
RemovePrefix(s) ==
  IF \E q \in Qualifiers :
       StartsWith(s, q) /\ Len(s) > Len(q) /\ IsSpace(Char(s, Len(q) + 1))
  THEN LET q == CHOOSE q \in Qualifiers : StartsWith(s, q)
       IN LStrip(Rest(s, Len(q) + 1))
  ELSE s

\* re.sub(r'\s+(fresh|dried|frozen|canned|organic)$', '', s)
RemoveSuffix(s) ==
  IF \E q \in Qualifiers :
       EndsWith(s, q) /\ Len(s) > Len(q) /\ IsSpace(Char(s, Len(s) - Len(q)))
  THEN LET q == CHOOSE q \in Qualifiers : EndsWith(s, q)
       IN RStrip(SubSeq(s, 1, Len(s) - Len(q)))
  ELSE s

_normalize_basic(ingredient) ==
  LET normalized == Strip(CollapseSpaces(Lower(ingredient)))
  IN IF normalized = "" THEN ""
     ELSE RemoveSuffix(RemovePrefix(RemovePunctuation(normalized)))

\* substring either way, or the shared words are at least 70% of the words
\* of the shorter name (n >= m * 0.7 compared as 10 n >= 7 m)
_is_fuzzy_match(normalized, alias) ==
  \/ Contains(normalized, alias)
  \/ Contains(alias, normalized)
  \/ LET normalized_words == Words(normalized)
         alias_words == Words(alias)
     IN 10 * Cardinality(normalized_words \cap alias_words)
          >= 7 * Min(Cardinality(normalized_words), Cardinality(alias_words))

\* the loop over self.aliases.items(): the canonical name of the first entry,
\* in insertion order, that fuzzy-matches; the normalized name when none does
FirstFuzzy(normalized) ==
  LET matches == {i \in 1..Len(aliases) : _is_fuzzy_match(normalized, aliases[i].key)}
  IN IF matches = {} THEN normalized
     ELSE aliases[CHOOSE i \in matches : \A j \in matches : i <= j].value

\* _lookup_canonical running the loop of the fuzzy matches before the direct
\* lookup
_lookup_canonical_fuzzy_first(normalized) ==
  IF normalized = "" THEN "" ELSE FirstFuzzy(normalized)

_lookup_canonical(normalized) ==
  IF normalized = "" THEN ""
  ELSE IF DictHas(aliases, normalized) THEN DictGet(aliases, normalized)
       ELSE FirstFuzzy(normalized)

canonicalize(ingredient) ==
  IF ingredient = "" THEN ""
  ELSE _lookup_canonical(_normalize_basic(ingredient))

-----------------------------------------------------------------------------
(* RestrictionKnowledgeBase                                                *)

\* A SubstitutionOption as the table writes it.  Of its fields the model
\* keeps name and ratio; unit_conversion and notes are texts that are only
\* copied, and confidence is 1.0 throughout.  The one ratio text with a
\* character outside Latin-1 (low-fodmap onion, scallion tops) has its
\* three-character approximation sign written as "~"; the code only tests
\* ratio texts for the pieces "1:1", "=", "cup", "ml", "tbsp", "tsp", "lb", "oz".
SubstitutionOption(name, ratio) == [name |-> name, ratio |-> ratio]

\* Each option object belongs to one entry: the entry's ingredient and
\* diet_type stand in the object for its identity.
IngredientRestrictions(original_ingredient, diet_type, substitution_options, forbidden_tags) ==
  [original_ingredient |-> original_ingredient,
   diet_type |-> diet_type,
   substitution_options |->
     [k \in 1..Len(substitution_options) |->
        [name |-> substitution_options[k].name,
         ratio |-> substitution_options[k].ratio,
         ingredient |-> original_ingredient,
         diet_type |-> diet_type]],
   forbidden_tags |-> forbidden_tags]

all_restrictions ==
  <<
    [key |-> "onion", value |->
       IngredientRestrictions("onion", "low-fodmap",
         << SubstitutionOption("green onion tops (scallion)", "1 small onion ~ 1 cup chopped scallion green parts"),
            SubstitutionOption("chives", "Use liberally as garnish or stir in at end"),
            SubstitutionOption("leek greens", "Use similar volume as onion (up to 2/3 cup)"),
            SubstitutionOption("asafoetida (hing)", "1/8 teaspoon or pinch for whole dish") >>,
         << "fructans", "high-fodmap" >>)],
    [key |-> "garlic", value |->
       IngredientRestrictions("garlic", "low-fodmap",
         << SubstitutionOption("garlic-infused oil", "1 clove garlic = 1 Tbsp garlic-infused oil"),
            SubstitutionOption("garlic chives", "1-2 Tbsp chopped for garlic flavor"),
            SubstitutionOption("asafoetida (hing)", "Tiny pinch in hot oil") >>,
         << "fructans", "high-fodmap" >>)],
    [key |-> "wheat flour", value |->
       IngredientRestrictions("wheat flour", "low-fodmap",
         << SubstitutionOption("gluten-free flour blend", "1 cup wheat flour = 1 cup GF blend (1:1)"),
            SubstitutionOption("spelt flour (white)", "1:1 substitution in limited amounts"),
            SubstitutionOption("oat flour (certified GF)", "1:1 in moderate amounts (1/4 cup or so)"),
            SubstitutionOption("rice flour", "1:1 for thickening or breading") >>,
         << "fructans", "wheat", "gluten" >>)],
    [key |-> "milk", value |->
       IngredientRestrictions("milk", "low-fodmap",
         << SubstitutionOption("lactose-free milk", "1 cup whole milk = 1 cup lactose-free milk (1:1)"),
            SubstitutionOption("almond milk", "1:1 up to 1 cup serving"),
            SubstitutionOption("rice milk", "1:1 up to 1 cup serving"),
            SubstitutionOption("oat milk (small servings)", "1:1 up to 1/2 cup serving") >>,
         << "lactose", "dairy" >>)],
    [key |-> "honey", value |->
       IngredientRestrictions("honey", "low-fodmap",
         << SubstitutionOption("pure maple syrup", "1 Tbsp honey = 1 Tbsp maple syrup (1:1)"),
            SubstitutionOption("brown sugar", "1/4 cup honey = 1/4 cup brown sugar + 1 Tbsp water"),
            SubstitutionOption("rice malt syrup", "1 Tbsp honey = 1 Tbsp rice syrup (3/4 as sweet)") >>,
         << "fructose", "high-fodmap" >>)],
    [key |-> "legumes", value |->
       IngredientRestrictions("legumes", "low-fodmap",
         << SubstitutionOption("canned lentils (rinsed)", "1 cup cooked beans = 1 cup canned lentils (limit to ~1/2 cup per serving)"),
            SubstitutionOption("canned chickpeas (rinsed)", "1/2 cup (46g drained) per serving"),
            SubstitutionOption("firm tofu", "1 cup beans = 1 cup firm tofu cubes"),
            SubstitutionOption("quinoa", "1:1 volume replacement in salads") >>,
         << "gos", "fructans", "high-fodmap" >>)],
    [key |-> "wheat bread", value |->
       IngredientRestrictions("wheat bread", "low-fodmap",
         << SubstitutionOption("sourdough bread (traditional)", "2 slices regular bread = 2 slices sourdough (same quantity)"),
            SubstitutionOption("spelt sourdough", "2 slices regular bread = 2 slices spelt sourdough"),
            SubstitutionOption("gluten-free bread", "1:1 slice replacement") >>,
         << "fructans", "wheat", "gluten" >>)],
    [key |-> "apples", value |->
       IngredientRestrictions("apples", "low-fodmap",
         << SubstitutionOption("banana (just ripe)", "1 medium apple (150g) = 1 medium banana (100g)"),
            SubstitutionOption("berries (strawberry, blueberry, raspberry)", "1 medium apple = ~10 medium strawberries (150g)"),
            SubstitutionOption("citrus (orange, mandarin)", "1 medium apple (150g) = 1 medium navel orange (180g)"),
            SubstitutionOption("kiwi", "2 kiwis can replace 1 apple in fruit platters") >>,
         << "fructose", "high-fodmap" >>)],
    [key |-> "pears", value |->
       IngredientRestrictions("pears", "low-fodmap",
         << SubstitutionOption("banana (just ripe)", "1 medium pear = 1 medium banana"),
            SubstitutionOption("grapes", "1 cup chopped pear = 1 cup halved grapes"),
            SubstitutionOption("cantaloupe", "1 cup chopped pear = 1 cup cubed cantaloupe"),
            SubstitutionOption("dragonfruit (pitaya)", "1:1 volume replacement") >>,
         << "fructose", "polyols", "high-fodmap" >>)]
  >>

\* key = f"{ingredient}_{restriction.diet_type}" for every entry of a per-diet dict
CompositeKeys(restriction_dict) ==
  [i \in 1..Len(restriction_dict) |->
     [key |-> restriction_dict[i].key \o "_" \o restriction_dict[i].value.diet_type,
      value |-> restriction_dict[i].value]]

\* the stores into self.restrictions of one load_from_table call: the entries
\* of all_restrictions under their plain keys, the per-diet dicts under
\* composite keys, then the keto sugar entry under its plain key
load_from_table ==
  all_restrictions
    \o CompositeKeys(  \* gluten_free_restrictions
      <<
        [key |-> "flour", value |->
           IngredientRestrictions("flour", "gluten-free",
             << SubstitutionOption("almond flour", "1 cup wheat flour = 1 cup almond flour"),
                SubstitutionOption("coconut flour", "1 cup wheat flour = 1/4 cup coconut flour + extra eggs"),
                SubstitutionOption("gluten-free all-purpose blend", "1:1 substitution"),
                SubstitutionOption("oat flour (certified GF)", "1:1 substitution") >>,
             << "gluten", "wheat" >>)],
        [key |-> "wheat bread", value |->
           IngredientRestrictions("wheat bread", "gluten-free",
             << SubstitutionOption("gluten-free bread", "1:1 slice replacement"),
                SubstitutionOption("lettuce wraps", "2 slices bread = 2 large lettuce leaves"),
                SubstitutionOption("gluten-free tortillas", "2 slices bread = 1 large tortilla") >>,
             << "gluten", "wheat" >>)]
      >>)
    \o CompositeKeys(  \* keto_restrictions
      <<
        [key |-> "sugar", value |->
           IngredientRestrictions("sugar", "keto",
             << SubstitutionOption("erythritol", "1 cup sugar = 1 cup erythritol"),
                SubstitutionOption("stevia", "1 cup sugar = 1 tsp stevia powder"),
                SubstitutionOption("monk fruit sweetener", "1 cup sugar = 1 cup monk fruit blend"),
                SubstitutionOption("allulose", "1:1 substitution") >>,
             << "carbs", "sugar", "high-carb" >>)],
        [key |-> "flour", value |->
           IngredientRestrictions("flour", "keto",
             << SubstitutionOption("almond flour", "1 cup flour = 1 cup almond flour"),
                SubstitutionOption("coconut flour", "1 cup flour = 1/4 cup coconut flour + extra eggs"),
                SubstitutionOption("psyllium husk powder", "1 cup flour = 1/4 cup psyllium + 3/4 cup almond flour") >>,
             << "carbs", "starch", "high-carb" >>)],
        [key |-> "rice", value |->
           IngredientRestrictions("rice", "keto",
             << SubstitutionOption("cauliflower rice", "1 cup rice = 1 cup cauliflower rice"),
                SubstitutionOption("shirataki rice", "1:1 volume replacement"),
                SubstitutionOption("broccoli rice", "1 cup rice = 1 cup broccoli rice") >>,
             << "carbs", "starch", "high-carb" >>)]
      >>)
    \o CompositeKeys(  \* vegan_restrictions
      <<
        [key |-> "milk", value |->
           IngredientRestrictions("milk", "vegan",
             << SubstitutionOption("oat milk", "1:1 substitution"),
                SubstitutionOption("almond milk", "1:1 substitution"),
                SubstitutionOption("coconut milk", "1:1 substitution"),
                SubstitutionOption("soy milk", "1:1 substitution") >>,
             << "dairy", "animal-products" >>)],
        [key |-> "butter", value |->
           IngredientRestrictions("butter", "vegan",
             << SubstitutionOption("coconut oil", "1:1 substitution"),
                SubstitutionOption("vegan butter", "1:1 substitution"),
                SubstitutionOption("olive oil", "1 Tbsp butter = 3/4 Tbsp olive oil"),
                SubstitutionOption("avocado", "1 Tbsp butter = 1/4 mashed avocado") >>,
             << "dairy", "animal-products" >>)],
        [key |-> "eggs", value |->
           IngredientRestrictions("eggs", "vegan",
             << SubstitutionOption("flax egg", "1 egg = 1 Tbsp ground flaxseed + 3 Tbsp water"),
                SubstitutionOption("chia egg", "1 egg = 1 Tbsp chia seeds + 3 Tbsp water"),
                SubstitutionOption("applesauce", "1 egg = 1/4 cup applesauce"),
                SubstitutionOption("aquafaba", "1 egg = 3 Tbsp aquafaba (chickpea liquid)") >>,
             << "eggs", "animal-products" >>)],
        [key |-> "honey", value |->
           IngredientRestrictions("honey", "vegan",
             << SubstitutionOption("maple syrup", "1:1 substitution"),
                SubstitutionOption("agave nectar", "1:1 substitution"),
                SubstitutionOption("date syrup", "1:1 substitution"),
                SubstitutionOption("brown rice syrup", "1:1 substitution") >>,
             << "honey", "animal-products" >>)]
      >>)
    \o CompositeKeys(  \* dairy_free_restrictions
      <<
        [key |-> "milk", value |->
           IngredientRestrictions("milk", "dairy-free",
             << SubstitutionOption("oat milk", "1:1 substitution"),
                SubstitutionOption("almond milk", "1:1 substitution"),
                SubstitutionOption("coconut milk", "1:1 substitution"),
                SubstitutionOption("soy milk", "1:1 substitution") >>,
             << "dairy", "lactose" >>)],
        [key |-> "cheese", value |->
           IngredientRestrictions("cheese", "dairy-free",
             << SubstitutionOption("nutritional yeast", "1/4 cup cheese = 2-3 Tbsp nutritional yeast"),
                SubstitutionOption("cashew cheese", "1:1 substitution"),
                SubstitutionOption("coconut cream", "1 cup cheese = 1 cup coconut cream"),
                SubstitutionOption("dairy-free cheese", "1:1 substitution") >>,
             << "dairy", "lactose" >>)],
        [key |-> "yogurt", value |->
           IngredientRestrictions("yogurt", "dairy-free",
             << SubstitutionOption("coconut yogurt", "1:1 substitution"),
                SubstitutionOption("almond yogurt", "1:1 substitution"),
                SubstitutionOption("soy yogurt", "1:1 substitution"),
                SubstitutionOption("cashew yogurt", "1:1 substitution") >>,
             << "dairy", "lactose" >>)]
      >>)
    \o CompositeKeys(  \* paleo_restrictions
      <<
        [key |-> "grains", value |->
           IngredientRestrictions("grains", "paleo",
             << SubstitutionOption("cauliflower rice", "1 cup grains = 1 cup cauliflower rice"),
                SubstitutionOption("sweet potato", "1 cup grains = 1 cup mashed sweet potato"),
                SubstitutionOption("spaghetti squash", "1 cup pasta = 1 cup spaghetti squash"),
                SubstitutionOption("zucchini noodles", "1 cup pasta = 1 cup zucchini noodles") >>,
             << "grains", "gluten", "processed" >>)],
        [key |-> "legumes", value |->
           IngredientRestrictions("legumes", "paleo",
             << SubstitutionOption("nuts and seeds", "1 cup legumes = 1/2 cup mixed nuts/seeds"),
                SubstitutionOption("mushrooms", "1 cup legumes = 1 cup sliced mushrooms"),
                SubstitutionOption("eggs", "1 cup legumes = 2-3 eggs") >>,
             << "legumes", "beans", "processed" >>)]
      >>)
    \o CompositeKeys(  \* soy_free_restrictions
      <<
        [key |-> "soy sauce", value |->
           IngredientRestrictions("soy sauce", "soy-free",
             << SubstitutionOption("coconut aminos", "1:1 substitution"),
                SubstitutionOption("tamari (gluten-free soy sauce)", "1:1 substitution"),
                SubstitutionOption("worcestershire sauce", "1 Tbsp soy sauce = 1 Tbsp worcestershire"),
                SubstitutionOption("fish sauce", "1 Tbsp soy sauce = 1 Tbsp fish sauce") >>,
             << "soy", "legumes" >>)],
        [key |-> "tofu", value |->
           IngredientRestrictions("tofu", "soy-free",
             << SubstitutionOption("tempeh (if tolerated)", "1:1 substitution"),
                SubstitutionOption("seitan", "1:1 substitution"),
                SubstitutionOption("mushrooms", "1 cup tofu = 1 cup sliced mushrooms"),
                SubstitutionOption("jackfruit", "1 cup tofu = 1 cup young jackfruit") >>,
             << "soy", "legumes" >>)]
      >>)
    \o CompositeKeys(  \* egg_free_restrictions
      <<
        [key |-> "eggs", value |->
           IngredientRestrictions("eggs", "egg-free",
             << SubstitutionOption("flax egg", "1 egg = 1 Tbsp ground flaxseed + 3 Tbsp water"),
                SubstitutionOption("chia egg", "1 egg = 1 Tbsp chia seeds + 3 Tbsp water"),
                SubstitutionOption("applesauce", "1 egg = 1/4 cup applesauce"),
                SubstitutionOption("banana", "1 egg = 1/2 mashed banana") >>,
             << "eggs", "allergen" >>)]
      >>)
    \o CompositeKeys(  \* nut_free_restrictions
      <<
        [key |-> "almond flour", value |->
           IngredientRestrictions("almond flour", "nut-free",
             << SubstitutionOption("sunflower seed flour", "1:1 substitution"),
                SubstitutionOption("pumpkin seed flour", "1:1 substitution"),
                SubstitutionOption("oat flour (certified GF)", "1:1 substitution"),
                SubstitutionOption("coconut flour", "1 cup almond flour = 1/4 cup coconut flour + extra eggs") >>,
             << "nuts", "tree-nuts", "almonds" >>)],
        [key |-> "peanut butter", value |->
           IngredientRestrictions("peanut butter", "nut-free",
             << SubstitutionOption("sunflower seed butter", "1:1 substitution"),
                SubstitutionOption("soy butter", "1:1 substitution"),
                SubstitutionOption("tahini", "1:1 substitution") >>,
             << "nuts", "peanuts", "tree-nuts" >>)]
      >>)
    \o (  \* keto_sugar_restrictions
      <<
        [key |-> "granulated sugar", value |->
           IngredientRestrictions("granulated sugar", "keto",
             << SubstitutionOption("erythritol", "1 cup sugar = 1 cup erythritol"),
                SubstitutionOption("stevia", "1 cup sugar = 1 tsp stevia powder"),
                SubstitutionOption("monk fruit", "1 cup sugar = 1/2 cup monk fruit sweetener"),
                SubstitutionOption("allulose", "1 cup sugar = 1 cup allulose") >>,
             << "sugar", "sweetener", "high-carb", "glucose", "fructose" >>)]
      >>)

\* self.restrictions: the table is loaded by __init__ and loaded once more by
\* UnifiedSubstitutionSystem.__init__
restrictions == DictOf(load_from_table \o load_from_table)

\* self.diet_types: the diet of every entry stored
get_all_diets == {restrictions[i].value.diet_type : i \in 1..Len(restrictions)}

KB_get_substitution_options(ingredient, diet_type) ==
  LET key == Strip(Lower(ingredient)) \o "_" \o diet_type
  IN IF DictHas(restrictions, key)
     THEN DictGet(restrictions, key).substitution_options
     ELSE << >>

\* KB_is_forbidden building its key from the name as given
KB_is_forbidden_key_as_given(ingredient, diet_type) ==
  LET key == ingredient \o "_" \o diet_type
  IN IF DictHas(restrictions, key)
     THEN Len(DictGet(restrictions, key).substitution_options) > 0
     ELSE FALSE

KB_is_forbidden(ingredient, diet_type) ==
  LET key == Strip(Lower(ingredient)) \o "_" \o diet_type
  IN IF DictHas(restrictions, key)
     THEN Len(DictGet(restrictions, key).substitution_options) > 0
     ELSE FALSE

-----------------------------------------------------------------------------
(* UnifiedSubstitutionSystem                                               *)

\* the ingredient names of the caller's recipes
RecipeNames == {"eggs", "milk", "flour"}

\* the ingredient names the caller asks about
LookupNames ==
  {"eggs", "Eggs", " milk ", "flour", "AP flour", "flax egg", "oat milk",
   "salt", "sugar", "onion"}

\* the ingredient names of the callers below and the names of all substitution
\* options of the table: the names the unified system is asked about
AskedNames ==
  LookupNames \cup RecipeNames
    \cup {restrictions[i].value.original_ingredient : i \in 1..Len(restrictions)}
    \cup UNION {{restrictions[i].value.substitution_options[k].name :
                   k \in 1..Len(restrictions[i].value.substitution_options)} :
                i \in 1..Len(restrictions)}

\* canonicalize is a pure function of the name: its value on the asked names is
\* computed once and looked up afterwards
CanonicalOfAsked == [name \in AskedNames |-> canonicalize(name)]

Canonical(ingredient) ==
  IF ingredient \in AskedNames THEN CanonicalOfAsked[ingredient]
  ELSE canonicalize(ingredient)

get_substitution_options(ingredient, diet_type) ==
  KB_get_substitution_options(Canonical(ingredient), diet_type)

\* is_forbidden answering for the ingredient alone, whatever the diet
is_forbidden_under_any_diet(ingredient, diet_type) ==
  \E d \in get_all_diets : KB_is_forbidden(Canonical(ingredient), d)

is_forbidden(ingredient, diet_type) ==
  KB_is_forbidden(Canonical(ingredient), diet_type)

-----------------------------------------------------------------------------
(* CompositeDietEngine                                                     *)

Range(seq) == {seq[i] : i \in 1..Len(seq)}

\* the orders in which iterating a Python set of strings can yield its
\* elements: the order follows the strings' hashes, which are salted anew in
\* every interpreter process
Orderings(S) ==
  {order \in [1..Cardinality(S) -> S] :
     \A i, j \in 1..Cardinality(S) : i # j => order[i] # order[j]}

RECURSIVE Join(_, _)
Join(sep, strings) ==
  IF strings = << >> THEN ""
  ELSE IF Len(strings) = 1 THEN strings[1]
       ELSE strings[1] \o sep \o Join(sep, Tail(strings))

diet_priority ==
  << "keto", "paleo", "vegan", "dairy-free", "gluten-free",
     "soy-free", "egg-free", "nut-free", "low-fodmap" >>

get_union_forbidden_tags(diets) ==
  UNION {Range(restrictions[i].value.forbidden_tags) :
           i \in {i \in 1..Len(restrictions) :
                    restrictions[i].value.diet_type \in Range(diets)}}

\* keys of {opt.name.lower(): opt for opt in options}
OptionNames(options) == {Lower(options[k].name) : k \in 1..Len(options)}

\* value of {opt.name.lower(): opt for opt in options} under sub_name: of the
\* options of that lower-cased name, the last one of the list
OptionNamed(options, sub_name) ==
  options[CHOOSE k \in 1..Len(options) :
            /\ Lower(options[k].name) = sub_name
            /\ \A l \in (k + 1)..Len(options) : Lower(options[l].name) # sub_name]

\* find_common_substitutions taking each option from the first diet of the
\* caller's list that offers it
find_common_substitutions_first_listed(ingredient, diets) ==
  IF diets = << >> THEN {<< >>}
  ELSE
    LET Options(diet) == get_substitution_options(ingredient, diet)
        first_diet == diets[1]
        common_substitutions ==
          {sub_name \in OptionNames(Options(first_diet)) :
             \A diet \in Range(diets) \ {first_diet} :
               sub_name \in OptionNames(Options(diet))}
        appended ==
          {OptionNamed(Options(first_diet), sub_name) : sub_name \in common_substitutions}
    IN Orderings(appended)

\* find_common_substitutions without the intersection: the options of the
\* first diet, whatever the other diets offer
find_substitutions_of_first_diet(ingredient, diets) ==
  IF diets = << >> THEN {<< >>}
  ELSE Orderings(Range(get_substitution_options(ingredient, diets[1])))

\* The set of lists find_common_substitutions can return: one list for each
\* order in which the set common_substitutions can be iterated.
find_common_substitutions(ingredient, diets) ==
  IF diets = << >> THEN {<< >>}
  ELSE
    LET \* diet_options[diet] is the dict of Options(diet) by lower-cased name
        Options(diet) == get_substitution_options(ingredient, diet)
        first_diet == diets[1]
        common_substitutions ==
          {sub_name \in OptionNames(Options(first_diet)) :
             \A diet \in Range(diets) \ {first_diet} :
               sub_name \in OptionNames(Options(diet))}
        \* the diets of diet_priority, in its order, that are keys of
        \* diet_options and offer sub_name
        Offering(sub_name) ==
          SelectSeq(diet_priority,
                    LAMBDA diet : /\ diet \in Range(diets)
                                  /\ sub_name \in OptionNames(Options(diet)))
        \* what the loop over common_substitutions appends, as a set: for each
        \* name the option of the first offering diet, nothing if none offers it
        appended ==
          {OptionNamed(Options(Offering(sub_name)[1]), sub_name) :
             sub_name \in {n \in common_substitutions : Offering(n) # << >>}}
    IN Orderings(appended)

DietConflict(ingredient, conflicting_diets, conflict_type, suggested_resolution, severity) ==
  [ingredient |-> ingredient,
   conflicting_diets |-> conflicting_diets,
   conflict_type |-> conflict_type,
   suggested_resolution |-> suggested_resolution,
   severity |-> severity]

\* detect_diet_conflicts treating a single forbidding diet as several
detect_diet_conflicts_from_one(ingredient, diets) ==
  LET Forbidden(diet) == is_forbidden(ingredient, diet)
      forbidden_diets == SelectSeq(diets, Forbidden)
  IN IF Len(forbidden_diets) >= 1
     THEN {IF common_subs = << >>
           THEN << DietConflict(ingredient, forbidden_diets, "no_common_substitution",
                     "No single substitution works for all diets: "
                        \o Join(", ", forbidden_diets),
                     "error") >>
           ELSE << DietConflict(ingredient, forbidden_diets, "multiple_diet_restriction",
                     "Use common substitution: " \o common_subs[1].name,
                     "warning") >> :
             common_subs \in find_common_substitutions(ingredient, forbidden_diets)}
     ELSE {<< >>}

\* The set of lists detect_diet_conflicts can return (the suggested resolution
\* names common_subs[0], whose choice follows the set order).
detect_diet_conflicts(ingredient, diets) ==
  LET Forbidden(diet) == is_forbidden(ingredient, diet)
      forbidden_diets == SelectSeq(diets, Forbidden)
  IN IF Len(forbidden_diets) > 1
     THEN {IF common_subs = << >>
           THEN << DietConflict(ingredient, forbidden_diets, "no_common_substitution",
                     "No single substitution works for all diets: "
                        \o Join(", ", forbidden_diets),
                     "error") >>
           ELSE << DietConflict(ingredient, forbidden_diets, "multiple_diet_restriction",
                     "Use common substitution: " \o common_subs[1].name,
                     "warning") >> :
             common_subs \in find_common_substitutions(ingredient, forbidden_diets)}
     ELSE IF Len(forbidden_diets) = 1
          THEN {<< DietConflict(ingredient, forbidden_diets, "single_diet_restriction",
                     "Ingredient forbidden in " \o forbidden_diets[1] \o " diet",
                     "info") >>}
          ELSE {<< >>}

\* validate_final_compliance matching the tags against the names as listed
validate_final_compliance_of_names(ingredients, diets) ==
  LET union_forbidden == get_union_forbidden_tags(diets)
  IN ~ \E i \in 1..Len(ingredients) :
         \E tag \in union_forbidden :
           Contains(Lower(ingredients[i].name), Lower(tag))

validate_final_compliance(ingredients, diets) ==
  LET union_forbidden == get_union_forbidden_tags(diets)
  IN ~ \E i \in 1..Len(ingredients) :
         LET canonical_name == Canonical(ingredients[i].name)
         IN \E tag \in union_forbidden :
              Contains(Lower(canonical_name), Lower(tag))

\* key=lambda d: self.diet_priority.index(d) if d in self.diet_priority else 999
PriorityKey(d) ==
  IF d \in Range(diet_priority)
  THEN (CHOOSE p \in 1..Len(diet_priority) : diet_priority[p] = d) - 1
  ELSE 999

\* sorted(diets, key=...): a stable sort (first the list left as the caller
\* gave it)
InCallersOrder(diets) ==
  diets

SortedByPriority(diets) ==
  LET Before(i, j) ==
        \/ PriorityKey(diets[i]) < PriorityKey(diets[j])
        \/ PriorityKey(diets[i]) = PriorityKey(diets[j]) /\ i < j
      Place(i) == 1 + Cardinality({j \in 1..Len(diets) : Before(j, i)})
  IN [n \in 1..Len(diets) |-> diets[CHOOSE i \in 1..Len(diets) : Place(i) = n]]

\* list.index(x): the position of the first element equal to x
Index(list, x) ==
  CHOOSE i \in 1..Len(list) : list[i] = x /\ \A j \in 1..(i - 1) : list[j] # x

RecipeIngredient(name, amount, unit, quantity, notes) ==
  [name |-> name, amount |-> amount, unit |-> unit, quantity |-> quantity, notes |-> notes]

-----------------------------------------------------------------------------
(* Numbers.  A Python float is modelled by the rational number it stands   *)
(* for, a record [num, den] in lowest terms with den > 0; the arithmetic   *)
(* is exact.                                                               *)

RECURSIVE GCD(_, _)
GCD(a, b) == IF b = 0 THEN a ELSE GCD(b, a % b)

Rat(n, d) ==
  LET g == GCD(IF n < 0 THEN -n ELSE n, d)
  IN [num |-> n \div g, den |-> d \div g]

RECURSIVE Pow10(_)
Pow10(places) == IF places = 0 THEN 1 ELSE 10 * Pow10(places - 1)

\* the decimal literal whose digits are `digits', the last `places' of them
\* after the point: Dec(453592, 3) is 453.592
Dec(digits, places) == Rat(digits, Pow10(places))

\* x * y, cancelling before multiplying
RatMul(x, y) ==
  LET g1 == GCD(IF x.num < 0 THEN -x.num ELSE x.num, y.den)
      g2 == GCD(IF y.num < 0 THEN -y.num ELSE y.num, x.den)
  IN Rat((x.num \div g1) * (y.num \div g2), (x.den \div g2) * (y.den \div g1))

\* x / y for y # 0
RatDiv(x, y) ==
  RatMul(x, IF y.num < 0 THEN [num |-> -y.den, den |-> -y.num]
            ELSE [num |-> y.den, den |-> y.num])

RatAdd(x, y) == Rat(x.num * y.den + y.num * x.den, x.den * y.den)

-----------------------------------------------------------------------------
(* UnitConverter                                                           *)

Unit(name, unit_type, base_factor, unit_aliases) ==
  [name |-> name, unit_type |-> unit_type, base_factor |-> base_factor,
   aliases |-> unit_aliases]

all_units ==
  (  \* mass_units
    << Unit("g", "mass", Dec(10, 1), << "gram", "grams" >>),
       Unit("kg", "mass", Dec(10000, 1), << "kilogram", "kilograms", "kilo" >>),
       Unit("lb", "mass", Dec(453592, 3), << "pound", "pounds", "lbs" >>),
       Unit("oz", "mass", Dec(283495, 4), << "ounce", "ounces" >>) >>)
  \o (  \* volume_units
    << Unit("ml", "volume", Dec(10, 1), << "milliliter", "milliliters" >>),
       Unit("l", "volume", Dec(10000, 1), << "liter", "liters", "litre", "litres" >>),
       Unit("cup", "volume", Dec(236588, 3), << "cups" >>),
       Unit("tbsp", "volume", Dec(147868, 4), << "tablespoon", "tablespoons", "T", "Tbsp" >>),
       Unit("tsp", "volume", Dec(492892, 5), << "teaspoon", "teaspoons", "t" >>),
       Unit("fl oz", "volume", Dec(295735, 4), << "fluid ounce", "fluid ounces" >>),
       Unit("pt", "volume", Dec(473176, 3), << "pint", "pints" >>),
       Unit("qt", "volume", Dec(946353, 3), << "quart", "quarts" >>),
       Unit("gal", "volume", Dec(378541, 2), << "gallon", "gallons" >>) >>)
  \o (  \* count_units
    << Unit("piece", "count", Dec(10, 1), << "pieces", "pcs", "pc" >>),
       Unit("dozen", "count", Dec(120, 1), << "dozens" >>) >>)
  \o (  \* length_units
    << Unit("mm", "length", Dec(10, 1), << "millimeter", "millimeters" >>),
       Unit("cm", "length", Dec(100, 1), << "centimeter", "centimeters" >>),
       Unit("in", "length", Dec(254, 1), << "inch", "inches" >>) >>)
  \o (  \* temp_units
    << Unit("°C", "temperature", Dec(10, 1), << "celsius", "centigrade" >>),
       Unit("°F", "temperature", Dec(10, 1), << "fahrenheit" >>) >>)

\* the stores of the loop over all_units: each unit under its name, then
\* under each of its aliases
RECURSIVE UnitStores(_)
UnitStores(unit_list) ==
  IF unit_list = << >> THEN << >>
  ELSE LET unit == Head(unit_list)
       IN << [key |-> unit.name, value |-> unit] >>
            \o [i \in 1..Len(unit.aliases) |-> [key |-> unit.aliases[i], value |-> unit]]
            \o UnitStores(Tail(unit_list))

_build_unit_database == DictOf(UnitStores(all_units))

\* self.units
units == _build_unit_database

density_data ==
  << << "flour", Dec(6, 1) >>, << "sugar", Dec(85, 2) >>,
     << "brown sugar", Dec(8, 1) >>, << "powdered sugar", Dec(6, 1) >>,
     << "butter", Dec(91, 2) >>, << "oil", Dec(92, 2) >>,
     << "milk", Dec(103, 2) >>, << "water", Dec(10, 1) >>,
     << "honey", Dec(14, 1) >>, << "molasses", Dec(14, 1) >>,
     << "corn syrup", Dec(136, 2) >>, << "cream", Dec(10, 1) >>,
     << "yogurt", Dec(103, 2) >>, << "sour cream", Dec(10, 1) >>,
     << "cheese", Dec(10, 1) >>, << "nuts", Dec(6, 1) >>,
     << "almond flour", Dec(4, 1) >>, << "coconut flour", Dec(3, 1) >>,
     << "cocoa powder", Dec(4, 1) >>, << "baking powder", Dec(9, 1) >>,
     << "baking soda", Dec(9, 1) >>, << "salt", Dec(12, 1) >>,
     << "rice", Dec(8, 1) >>, << "oats", Dec(3, 1) >> >>

_build_density_database ==
  DictOf([i \in 1..Len(density_data) |->
            [key |-> density_data[i][1],
             value |-> [ingredient |-> density_data[i][1],
                        density_g_per_ml |-> density_data[i][2]]]])

\* self.densities
densities == _build_density_database

ConversionResult(original_amount, original_unit, converted_amount, converted_unit, conversion_factor, success, error_message) ==
  [original_amount |-> original_amount, original_unit |-> original_unit,
   converted_amount |-> converted_amount, converted_unit |-> converted_unit,
   conversion_factor |-> conversion_factor, success |-> success,
   error_message |-> error_message]

\* the outcome of a call that raises instead of returning: the exception and
\* its message, str(e)
Raised(exception, message) == [raised |-> exception, message |-> message]

HasRaised(outcome) == "raised" \in DOMAIN outcome

ConversionFailure(amount, from_unit, to_unit, error_message) ==
  ConversionResult(amount, from_unit, Dec(0, 1), to_unit, Dec(0, 1), FALSE, error_message)

get_unit_type(unit) ==
  LET TypeOf(unit_lower) ==
        IF DictHas(units, unit_lower) THEN DictGet(units, unit_lower).unit_type
        ELSE "unknown"
  IN TypeOf(Strip(Lower(unit)))

\* convert_same_dimension scaling by the inverse ratio
convert_same_dimension_inverted(amount, from_unit, to_unit) ==
  LET from_unit_obj == DictGet(units, Strip(Lower(from_unit)))
      to_unit_obj == DictGet(units, Strip(Lower(to_unit)))
  IN ConversionResult(amount, from_unit,
       RatDiv(RatMul(amount, to_unit_obj.base_factor), from_unit_obj.base_factor),
       to_unit, RatDiv(to_unit_obj.base_factor, from_unit_obj.base_factor), TRUE, "")

convert_same_dimension(amount, from_unit, to_unit) ==
  LET Scaled(from_unit_obj, to_unit_obj) ==
        IF from_unit_obj.unit_type # to_unit_obj.unit_type
        THEN ConversionFailure(amount, from_unit, to_unit,
               "Cannot convert " \o from_unit \o " (" \o from_unit_obj.unit_type
                 \o ") to " \o to_unit \o " (" \o to_unit_obj.unit_type \o ")")
        ELSE
          LET base_amount == RatMul(amount, from_unit_obj.base_factor)
              converted_amount == RatDiv(base_amount, to_unit_obj.base_factor)
              conversion_factor ==
                RatDiv(to_unit_obj.base_factor, from_unit_obj.base_factor)
          IN ConversionResult(amount, from_unit, converted_amount, to_unit,
                              conversion_factor, TRUE, "")
      Looked(from_unit_lower, to_unit_lower) ==
        IF ~ DictHas(units, from_unit_lower)
        THEN ConversionFailure(amount, from_unit, to_unit, "Unknown unit: " \o from_unit)
        ELSE IF ~ DictHas(units, to_unit_lower)
        THEN ConversionFailure(amount, from_unit, to_unit, "Unknown unit: " \o to_unit)
        ELSE Scaled(DictGet(units, from_unit_lower), DictGet(units, to_unit_lower))
  IN Looked(Strip(Lower(from_unit)), Strip(Lower(to_unit)))

\* convert_cross_dimension taking an ingredient without a density entry for
\* water
convert_cross_dimension_as_water(amount, from_unit, to_unit, ingredient) ==
  LET from_unit_obj == DictGet(units, Strip(Lower(from_unit)))
      to_unit_obj == DictGet(units, Strip(Lower(to_unit)))
      density == IF DictHas(densities, Lower(ingredient))
                 THEN DictGet(densities, Lower(ingredient)).density_g_per_ml
                 ELSE Dec(10, 1)
      converted_amount ==
        IF from_unit_obj.unit_type = "mass"
        THEN RatDiv(RatDiv(RatMul(amount, from_unit_obj.base_factor), density),
                    to_unit_obj.base_factor)
        ELSE RatDiv(RatMul(RatMul(amount, from_unit_obj.base_factor), density),
                    to_unit_obj.base_factor)
  IN ConversionResult(amount, from_unit, converted_amount, to_unit,
                      converted_amount, TRUE, "")

convert_cross_dimension(amount, from_unit, to_unit, ingredient) ==
  LET \* conversion_factor = converted_amount / amount
      Returned(converted_amount) ==
        IF amount.num = 0 THEN Raised("ZeroDivisionError", "float division by zero")
        ELSE ConversionResult(amount, from_unit, converted_amount, to_unit,
                              RatDiv(converted_amount, amount), TRUE, "")
      Scaled(from_unit_obj, to_unit_obj, density) ==
        IF from_unit_obj.unit_type \notin {"mass", "volume"}
        THEN ConversionFailure(amount, from_unit, to_unit,
               "Cannot convert " \o from_unit_obj.unit_type \o " to "
                 \o to_unit_obj.unit_type)
        ELSE Returned(
               IF from_unit_obj.unit_type = "mass"
               THEN \* mass to volume
                    LET mass_grams == RatMul(amount, from_unit_obj.base_factor)
                        volume_ml == RatDiv(mass_grams, density.density_g_per_ml)
                    IN RatDiv(volume_ml, to_unit_obj.base_factor)
               ELSE \* volume to mass
                    LET volume_ml == RatMul(amount, from_unit_obj.base_factor)
                        mass_grams == RatMul(volume_ml, density.density_g_per_ml)
                    IN RatDiv(mass_grams, to_unit_obj.base_factor))
      Looked(from_unit_lower, to_unit_lower, ingredient_lower) ==
        IF ~ DictHas(units, from_unit_lower) \/ ~ DictHas(units, to_unit_lower)
        THEN ConversionFailure(amount, from_unit, to_unit,
                               "Unknown units for cross-dimension conversion")
        ELSE IF ~ DictHas(densities, ingredient_lower)
        THEN ConversionFailure(amount, from_unit, to_unit,
                               "No density information available for " \o ingredient)
        ELSE Scaled(DictGet(units, from_unit_lower), DictGet(units, to_unit_lower),
                    DictGet(densities, ingredient_lower))
  IN Looked(Strip(Lower(from_unit)), Strip(Lower(to_unit)), Lower(ingredient))

\* convert without the test for identical units
convert_without_identity(amount, from_unit, to_unit, ingredient) ==
  LET from_type == get_unit_type(from_unit)
      to_type == get_unit_type(to_unit)
  IN IF from_type = "unknown" \/ to_type = "unknown"
     THEN ConversionFailure(amount, from_unit, to_unit, "Unknown unit types")
     ELSE IF from_type = to_type
     THEN convert_same_dimension(amount, from_unit, to_unit)
     ELSE IF {from_type, to_type} = {"mass", "volume"}
     THEN convert_cross_dimension(amount, from_unit, to_unit, ingredient)
     ELSE ConversionFailure(amount, from_unit, to_unit,
                            "Cannot convert " \o from_type \o " to " \o to_type)

convert(amount, from_unit, to_unit, ingredient) ==
  LET Typed(from_type, to_type) ==
        IF from_type = "unknown" \/ to_type = "unknown"
        THEN ConversionFailure(amount, from_unit, to_unit, "Unknown unit types")
        ELSE IF from_type = to_type
        THEN convert_same_dimension(amount, from_unit, to_unit)
        ELSE IF \/ from_type = "mass" /\ to_type = "volume"
                \/ from_type = "volume" /\ to_type = "mass"
        THEN convert_cross_dimension(amount, from_unit, to_unit, ingredient)
        ELSE ConversionFailure(amount, from_unit, to_unit,
                               "Cannot convert " \o from_type \o " to " \o to_type)
  IN IF Strip(Lower(from_unit)) = Strip(Lower(to_unit))
     THEN ConversionResult(amount, from_unit, amount, to_unit, Dec(10, 1), TRUE, "")
     ELSE Typed(get_unit_type(from_unit), get_unit_type(to_unit))

-----------------------------------------------------------------------------
(* UnitConverter: reading amounts                                          *)

Digits == "0123456789"

\* the length of the longest run (+ is greedy), from position i of s, of
\* characters of the class `chars'
RunFrom(s, i, chars) ==
  CHOOSE n \in 0..Len(s) :
    /\ \A k \in i..(i + n - 1) : k <= Len(s) /\ Contains(chars, Char(s, k))
    /\ i + n > Len(s) \/ ~ Contains(chars, Char(s, i + n))

\* int(text) of a run of digits
RECURSIVE IntOf(_)
IntOf(text) ==
  IF text = "" THEN 0
  ELSE 10 * IntOf(SubSeq(text, 1, Len(text) - 1))
         + (CHOOSE v \in 0..9 : Char(Digits, v + 1) = Char(text, Len(text)))

\* str(n) of a natural number
RECURSIVE DigitText(_)
DigitText(n) ==
  IF n < 10 THEN Char(Digits, n + 1)
  ELSE DigitText(n \div 10) \o Char(Digits, (n % 10) + 1)

\* float(text) of a decimal literal: digits, or digits "." digits
FloatOf(text) ==
  LET Value(whole) ==
        IF whole = Len(text) THEN Rat(IntOf(text), 1)
        ELSE Rat(IntOf(SubSeq(text, 1, whole)) * Pow10(Len(text) - whole - 1)
                   + IntOf(Rest(text, whole + 2)), Pow10(Len(text) - whole - 1))
  IN Value(RunFrom(text, 1, Digits))

\* str(x) of a non-negative float: a float with a whole value prints one zero
\* after the point, one with a decimal form of up to six places prints that
\* form.  The digits of any other float (seventeen significant ones) are not
\* computed; its text is written as the fraction it stands for.
FloatStr(x) ==
  LET Text(places) ==
        LET scaled == x.num * (Pow10(places) \div x.den)
        IN DigitText(scaled \div Pow10(places)) \o "."
             \o Rest(DigitText(Pow10(places) + (scaled % Pow10(places))), 2)
  IN IF x.den = 1 THEN DigitText(x.num) \o ".0"
     ELSE IF \E p \in 1..6 : Pow10(p) % x.den = 0
     THEN Text(CHOOSE p \in 1..6 : /\ Pow10(p) % x.den = 0
                                   /\ \A q \in 1..(p - 1) : Pow10(q) % x.den # 0)
     ELSE DigitText(x.num) \o "/" \o DigitText(x.den)

\* the Python call s.replace(old, new) for a non-empty old
RECURSIVE Replace(_, _, _)
Replace(s, old, new) ==
  IF Len(s) < Len(old) THEN s
  ELSE IF StartsWith(s, old) THEN new \o Replace(Rest(s, Len(old) + 1), old, new)
  ELSE Char(s, 1) \o Replace(Rest(s, 2), old, new)

fraction_map ==
  << [key |-> "1/8", value |-> "0.125"],
     [key |-> "1/4", value |-> "0.25"],
     [key |-> "1/3", value |-> "0.333"],
     [key |-> "3/8", value |-> "0.375"],
     [key |-> "1/2", value |-> "0.5"],
     [key |-> "5/8", value |-> "0.625"],
     [key |-> "2/3", value |-> "0.667"],
     [key |-> "3/4", value |-> "0.75"],
     [key |-> "7/8", value |-> "0.875"] >>

\* the length of the match of (\d+)\s+(\d+/\d+) that begins at position i
\* of s, 0 if there is none
MixedMatch(s, i) ==
  LET Bottom(slash) ==
        IF slash <= Len(s) /\ Char(s, slash) = "/" /\ RunFrom(s, slash + 1, Digits) >= 1
        THEN slash + RunFrom(s, slash + 1, Digits) - i + 1
        ELSE 0
      Top(start) ==
        IF RunFrom(s, start, Digits) >= 1
        THEN Bottom(start + RunFrom(s, start, Digits))
        ELSE 0
      Spaces(start) ==
        IF RunFrom(s, start, " \t\n\r") >= 1
        THEN Top(start + RunFrom(s, start, " \t\n\r"))
        ELSE 0
  IN IF RunFrom(s, i, Digits) >= 1
     THEN Spaces(i + RunFrom(s, i, Digits))
     ELSE 0

\* the standalone fractions, replaced in the order of fraction_map
RECURSIVE ReplaceFractions(_, _)
ReplaceFractions(amount_str, k) ==
  IF k > Len(fraction_map) THEN amount_str
  ELSE ReplaceFractions(Replace(amount_str, fraction_map[k].key, fraction_map[k].value),
                        k + 1)

_convert_fractions(amount_str) ==
  LET \* the mixed number matched, its whole part and its fraction
      Total(whole_number, fraction) ==
        RatAdd(Rat(IntOf(whole_number), 1), FloatOf(DictGet(fraction_map, fraction)))
      Matched(matched, whole) ==
        IF DictHas(fraction_map, Rest(matched, whole + RunFrom(matched, whole + 1, " \t\n\r") + 1))
        THEN Replace(amount_str, matched,
                     FloatStr(Total(SubSeq(matched, 1, whole),
                                    Rest(matched, whole + RunFrom(matched, whole + 1, " \t\n\r") + 1))))
        ELSE amount_str
      \* re.search finds the leftmost match
      First(i) ==
        Matched(SubSeq(amount_str, i, i + MixedMatch(amount_str, i) - 1),
                RunFrom(amount_str, i, Digits))
      Mixed(starts) ==
        IF starts = {} THEN amount_str
        ELSE First(CHOOSE i \in starts : \A j \in starts : i <= j)
  IN ReplaceFractions(Mixed({i \in 1..Len(amount_str) : MixedMatch(amount_str, i) > 0}), 1)

\* parse_amount returns the pair (quantity, unit)
parse_amount(amount_str) ==
  LET \* ^(\d+(?:\.\d+)?)\s+([a-zA-Z]+) on the cleaned text: the number ends at
      \* position `number', the unit begins at position `unit'
      UnitAt(cleaned, number, unit) ==
        IF number >= 1 /\ unit > number + 1
             /\ RunFrom(cleaned, unit, "abcdefghijklmnopqrstuvwxyzABCDEFGHIJKLMNOPQRSTUVWXYZ") >= 1
        THEN [quantity |-> FloatOf(SubSeq(cleaned, 1, number)),
              unit |-> SubSeq(cleaned, unit, unit - 1
                         + RunFrom(cleaned, unit,
                                   "abcdefghijklmnopqrstuvwxyzABCDEFGHIJKLMNOPQRSTUVWXYZ"))]
        ELSE [quantity |-> Dec(10, 1), unit |-> cleaned]
      Number(cleaned, number) ==
        UnitAt(cleaned, number, number + 1 + RunFrom(cleaned, number + 1, " \t\n\r"))
      Whole(cleaned, whole) ==
        IF /\ whole >= 1
           /\ whole + 1 <= Len(cleaned)
           /\ Char(cleaned, whole + 1) = "."
           /\ RunFrom(cleaned, whole + 2, Digits) >= 1
        THEN Number(cleaned, whole + 1 + RunFrom(cleaned, whole + 2, Digits))
        ELSE Number(cleaned, whole)
      Cleaned(cleaned) == Whole(cleaned, RunFrom(cleaned, 1, Digits))
  IN IF amount_str = "" THEN [quantity |-> Dec(0, 1), unit |-> ""]
     ELSE Cleaned(_convert_fractions(Lower(Strip(amount_str))))

-----------------------------------------------------------------------------
(* UnitAwareSubstitutionEngine                                             *)

\* the value of a field that holds no object
None == [none |-> TRUE]

\* the fields unit_conversion, notes and confidence are copies of the
\* option's fields of the same names, which the model does not keep
UnitAwareSubstitution(original_ingredient, original_amount, original_unit, original_quantity, substituted_ingredient, substituted_amount, substituted_unit, substituted_quantity, conversion_applied, conversion_result, substitution_ratio) ==
  [original_ingredient |-> original_ingredient,
   original_amount |-> original_amount,
   original_unit |-> original_unit,
   original_quantity |-> original_quantity,
   substituted_ingredient |-> substituted_ingredient,
   substituted_amount |-> substituted_amount,
   substituted_unit |-> substituted_unit,
   substituted_quantity |-> substituted_quantity,
   conversion_applied |-> conversion_applied,
   conversion_result |-> conversion_result,
   substitution_ratio |-> substitution_ratio]

parse_ingredient_amount(ingredient) ==
  LET Choice(parsed) ==
        IF ingredient.amount # "" /\ parsed.unit # ""
        THEN parsed
        ELSE [quantity |-> ingredient.quantity, unit |-> ingredient.unit]
  IN Choice(parse_amount(ingredient.amount))

_parse_substitution_ratio(ratio, original_quantity, original_unit) ==
  IF Contains(ratio, "1:1") \/ Contains(ratio, "=")
  THEN [quantity |-> original_quantity, unit |-> original_unit]
  ELSE IF Contains(ratio, "cup") /\ Contains(ratio, "ml")
  THEN [quantity |-> original_quantity, unit |-> "ml"]
  ELSE IF Contains(ratio, "tbsp") /\ Contains(ratio, "tsp")
  THEN [quantity |-> RatMul(original_quantity, Rat(3, 1)), unit |-> "tsp"]
  ELSE IF Contains(ratio, "lb") /\ Contains(ratio, "oz")
  THEN [quantity |-> RatMul(original_quantity, Rat(16, 1)), unit |-> "oz"]
  ELSE [quantity |-> original_quantity, unit |-> original_unit]

\* the f-string of a quantity: "{q:.0f}" if q == int(q), else "{q}"
FormatQuantity(quantity) ==
  IF quantity.den = 1 THEN DigitText(quantity.num) ELSE FloatStr(quantity)

\* Each local of the method is bound once, outermost first: options and the
\* parsed amount, the indices of the options of the name asked for (the loop
\* takes the first), the target of the ratio, the outcome of the conversion,
\* the final quantity and unit.
apply_substitution_with_units(ingredient, substitution_name, diet_type) ==
  CHOOSE returned \in
    UNION {
      UNION {
        IF found = {}
        THEN {Raised("ValueError",
                     "Substitution '" \o substitution_name \o "' not found for '"
                       \o ingredient.name \o "'")}
        ELSE
          UNION {
            UNION {
              IF HasRaised(conversion_result)
              THEN {conversion_result}
              ELSE
                {UnitAwareSubstitution(
                   ingredient.name, ingredient.amount, original.unit, original.quantity,
                   substitution_name, FormatQuantity(final.quantity) \o " " \o final.unit,
                   final.unit, final.quantity,
                   original.unit # target.unit /\ conversion_result.success,
                   conversion_result, selected_option.ratio) :
                 final \in
                   {IF original.unit # target.unit /\ conversion_result.success
                    THEN [quantity |-> conversion_result.converted_amount,
                          unit |-> conversion_result.converted_unit]
                    ELSE original}} :
              conversion_result \in
                {IF original.unit # target.unit
                 THEN convert(original.quantity, original.unit, target.unit,
                              substitution_name)
                 ELSE None}} :
            selected_option \in {options[CHOOSE k \in found : \A j \in found : k <= j]},
            target \in {_parse_substitution_ratio(
                          options[CHOOSE k \in found : \A j \in found : k <= j].ratio,
                          original.quantity, original.unit)}} :
        found \in {{k \in 1..Len(options) :
                     Lower(options[k].name) = Lower(substitution_name)}}} :
      options \in {get_substitution_options(ingredient.name, diet_type)},
      original \in {parse_ingredient_amount(ingredient)}} :
    TRUE

\* the inner loop of process_recipe_with_units: the first diet of the caller's
\* list that forbids the ingredient; needs_substitution stays False, and
\* applicable_diet None (written ""), if no diet of the list does
\* (first the same loop run on the diets by priority)
applicable_diet_by_priority(ingredient, diet_restrictions) ==
  CHOOSE diet \in
    {IF forbidding = {}
     THEN [needs_substitution |-> FALSE, applicable_diet |-> ""]
     ELSE [needs_substitution |-> TRUE,
           applicable_diet |->
             SortedByPriority(diet_restrictions)[CHOOSE k \in forbidding :
                                                   \A j \in forbidding : k <= j]] :
     forbidding \in
       {{k \in 1..Len(diet_restrictions) :
           is_forbidden(ingredient.name, SortedByPriority(diet_restrictions)[k])}}} :
    TRUE

applicable_diet(ingredient, diet_restrictions) ==
  CHOOSE diet \in
    {IF forbidding = {}
     THEN [needs_substitution |-> FALSE, applicable_diet |-> ""]
     ELSE [needs_substitution |-> TRUE,
           applicable_diet |->
             diet_restrictions[CHOOSE k \in forbidding : \A j \in forbidding : k <= j]] :
     forbidding \in
       {{k \in 1..Len(diet_restrictions) :
           is_forbidden(ingredient.name, diet_restrictions[k])}}} :
    TRUE

UnitAwareRecipeResult(original_recipe, diet_restrictions, the_substitutions, the_unchanged_ingredients, the_warnings, the_change_log, success) ==
  [original_recipe |-> original_recipe,
   diet_restrictions |-> diet_restrictions,
   substitutions |-> the_substitutions,
   unchanged_ingredients |-> the_unchanged_ingredients,
   warnings |-> the_warnings,
   change_log |-> the_change_log,
   success |-> success]

-----------------------------------------------------------------------------
(* Values the variables hold before the operation that sets them has run   *)

NoLookup ==
  [diet |-> "", kb_options |-> << >>, kb_forbidden |-> FALSE,
   options |-> << >>, forbidden |-> FALSE]

NoResult ==
  [original_recipe |-> << >>, applied_diets |-> << >>, final_ingredients |-> << >>,
   substitution_history |-> << >>, conflicts |-> << >>, warnings |-> << >>,
   change_log |-> << >>, success |-> FALSE]

CanonIdle == raw = "" /\ typed = 0 /\ canonical = "" /\ recanonical = ""

LookupIdle ==
  lookup = NoLookup /\ common = << >> /\ common_again = << >> /\ detected = << >>

EngineIdle ==
  /\ recipe = << >>
  /\ sorted_diets = << >>
  /\ current_ingredients = << >>
  /\ substituted_ingredients = {}
  /\ substitution_history = << >>
  /\ diet_changes = << >>
  /\ all_warnings = << >>
  /\ change_log = << >>
  /\ replaced_at = << >>
  /\ diet_at = 0
  /\ ingredient_at = 0
  /\ result = NoResult

NoConversion == ConversionResult(Dec(0, 1), "", Dec(0, 1), "", Dec(0, 1), FALSE, "")

PassIdle ==
  /\ applied_with_units = None
  /\ substitutions = << >>
  /\ unchanged_ingredients = << >>
  /\ warnings = << >>
  /\ unit_change_log = << >>
  /\ unit_at = 0
  /\ unit_result = UnitAwareRecipeResult(<< >>, << >>, << >>, << >>, << >>, << >>, FALSE)
  /\ parsed_amount = None
  /\ recipe_output = None

UnitsIdle ==
  /\ given_amount = Dec(0, 1)
  /\ given_from = ""
  /\ given_to = ""
  /\ given_ingredient = ""
  /\ converted = NoConversion
  /\ converted_back = NoConversion

\* all lists of at most n elements of S
ListsUpTo(S, n) == UNION {[1..k -> S] : k \in 0..n}

-----------------------------------------------------------------------------
(* Canonicalizer specification: a caller types a raw name and              *)
(* canonicalizes it, then canonicalizes the result again.                  *)

\* the pieces of text a raw name is typed from
Pieces == {"fresh ", "dried ", " ", " , ", "Eggs", "basil", "thyme", "AP flour", "salt"}

InitCanon ==
  /\ pc = "input"
  /\ asked_diets = << >>
  /\ CanonIdle
  /\ LookupIdle
  /\ EngineIdle
  /\ UnitsIdle
  /\ PassIdle

Type(piece) ==
  /\ pc = "input"
  /\ typed < MaxPieces
  /\ raw' = raw \o piece
  /\ typed' = typed + 1
  /\ UNCHANGED << pc, asked_diets, canonical, recanonical, lookupVars, engineVars, unitVars, passVars >>

Canonicalize ==
  /\ pc = "input"
  /\ canonical' = canonicalize(raw)
  /\ pc' = "canonical"
  /\ UNCHANGED << asked_diets, raw, typed, recanonical, lookupVars, engineVars, unitVars, passVars >>

Recanonicalize ==
  /\ pc = "canonical"
  /\ recanonical' = canonicalize(canonical)
  /\ pc' = "recanonical"
  /\ UNCHANGED << asked_diets, raw, typed, canonical, lookupVars, engineVars, unitVars, passVars >>

NextCanon ==
  \/ \E piece \in Pieces : Type(piece)
  \/ Canonicalize
  \/ Recanonicalize

SpecCanon == InitCanon /\ [][NextCanon]_vars

-----------------------------------------------------------------------------
(* Alias specification: a caller names an ingredient by one of the names   *)
(* of the alias table, in some letter case, and canonicalizes it.          *)

ToUpper ==
  [c \in {ToLower[u] : u \in DOMAIN ToLower} |->
     CHOOSE u \in DOMAIN ToLower : ToLower[u] = c]

\* str.upper()
RECURSIVE Upper(_)
Upper(s) ==
  IF s = "" THEN ""
  ELSE LET c == Char(s, 1)
       IN (IF c \in DOMAIN ToUpper THEN ToUpper[c] ELSE c) \o Upper(Rest(s, 2))

\* length of the first word of s
RECURSIVE FirstWordLen(_)
FirstWordLen(s) ==
  IF s = "" \/ IsSpace(Char(s, 1)) THEN 0 ELSE 1 + FirstWordLen(Rest(s, 2))

\* the letter cases a caller writes a name in: as listed in the table, all
\* capitals, first word in capitals ("AP flour"), first letter a capital
Spellings(name) ==
  {name,
   Upper(name),
   Upper(SubSeq(name, 1, FirstWordLen(name))) \o Rest(name, FirstWordLen(name) + 1),
   Upper(Char(name, 1)) \o Rest(name, 2)}

\* the names of an alias group: its canonical name and its aliases
GroupNames(group) == {group.canonical} \cup Range(group.aliases)

InitAlias ==
  /\ pc = "input"
  /\ asked_diets = << >>
  /\ CanonIdle
  /\ LookupIdle
  /\ EngineIdle
  /\ UnitsIdle
  /\ PassIdle

\* the caller writes a name of alias group g
NameAlias(g) ==
  /\ pc = "input"
  /\ raw = ""
  /\ \E name \in GroupNames(AliasGroups[g]) : raw' \in Spellings(name)
  /\ UNCHANGED << pc, asked_diets, typed, canonical, recanonical, lookupVars, engineVars, unitVars, passVars >>

NextAlias ==
  \/ \E g \in 1..Len(AliasGroups) : NameAlias(g)
  \/ Canonicalize

SpecAlias == InitAlias /\ [][NextAlias]_vars

-----------------------------------------------------------------------------
(* Lookup specification: a caller holding an ingredient name and a list of *)
(* diets asks the knowledge base, the unified system and the engine's      *)
(* pure operations about them.                                             *)

\* the diet identifiers callers pass; "pescatarian" is not a diet of the table
DietPool == {"vegan", "egg-free", "gluten-free", "dairy-free", "keto", "pescatarian"}

InitLookup ==
  /\ pc = "input"
  /\ raw \in LookupNames
  /\ typed = 0 /\ canonical = "" /\ recanonical = ""
  /\ asked_diets \in ListsUpTo(DietPool, MaxDiets)
  /\ LookupIdle
  /\ EngineIdle
  /\ UnitsIdle
  /\ PassIdle

\* the four lookups for the pair (raw, asked_diets[k])
LookUp(k) ==
  /\ pc = "input"
  /\ k \in 1..Len(asked_diets)
  /\ lookup' = [diet |-> asked_diets[k],
                kb_options |-> KB_get_substitution_options(raw, asked_diets[k]),
                kb_forbidden |-> KB_is_forbidden(raw, asked_diets[k]),
                options |-> get_substitution_options(raw, asked_diets[k]),
                forbidden |-> is_forbidden(raw, asked_diets[k])]
  /\ pc' = "looked_up"
  /\ UNCHANGED << asked_diets, canonVars, common, common_again, detected, engineVars, unitVars, passVars >>

FindCommon ==
  /\ pc = "input"
  /\ common' \in find_common_substitutions(raw, asked_diets)
  /\ pc' = "common"
  /\ UNCHANGED << asked_diets, canonVars, lookup, common_again, detected, engineVars, unitVars, passVars >>

\* the same call in another run of the program
FindCommonAgain ==
  /\ pc = "common"
  /\ common_again' \in find_common_substitutions(raw, asked_diets)
  /\ pc' = "common_again"
  /\ UNCHANGED << asked_diets, canonVars, lookup, common, detected, engineVars, unitVars, passVars >>

DetectConflicts ==
  /\ pc = "input"
  /\ detected' \in detect_diet_conflicts(raw, asked_diets)
  /\ pc' = "detected"
  /\ UNCHANGED << asked_diets, canonVars, lookup, common, common_again, engineVars, unitVars, passVars >>

NextLookup ==
  \/ \E k \in 1..MaxDiets : LookUp(k)
  \/ FindCommon
  \/ FindCommonAgain
  \/ DetectConflicts

SpecLookup == InitLookup /\ [][NextLookup]_vars

-----------------------------------------------------------------------------
(* Converter specification: a caller converts an amount from one unit to   *)
(* another for an ingredient, then converts the result back.               *)

\* the unit strings callers pass: the names of the table and some of its
\* aliases, names in other letter case or with spaces around them, and
\* strings that name no unit
UnitPool ==
  {all_units[i].name : i \in 1..Len(all_units)}
    \cup {"T", "Tbsp", "t", "cups", "pound", "celsius", "fahrenheit", "pcs"}
    \cup {"CUP", " cup ", "large", "xx"}

\* the ingredients callers pass: with a density entry, the same in capitals,
\* none, and one without an entry
IngredientPool == {"flour", "Flour", "honey", "", "eggs"}

InitConvert ==
  /\ pc = "input"
  /\ asked_diets = << >>
  /\ CanonIdle
  /\ LookupIdle
  /\ EngineIdle
  /\ PassIdle
  /\ given_amount \in {Rat(n, 1) : n \in 0..MaxAmount}
  /\ given_from \in UnitPool
  /\ given_to \in UnitPool
  /\ given_ingredient \in IngredientPool
  /\ converted = NoConversion
  /\ converted_back = NoConversion

Convert ==
  /\ pc = "input"
  /\ converted' = convert(given_amount, given_from, given_to, given_ingredient)
  /\ pc' = "converted"
  /\ UNCHANGED << asked_diets, canonVars, lookupVars, engineVars, passVars, given_amount,
                  given_from, given_to, given_ingredient, converted_back >>

\* the caller converts a successful result back to the unit it came from
ConvertBack ==
  /\ pc = "converted"
  /\ ~ HasRaised(converted)
  /\ converted.success
  /\ converted_back' = convert(converted.converted_amount, given_to, given_from,
                               given_ingredient)
  /\ pc' = "converted_back"
  /\ UNCHANGED << asked_diets, canonVars, lookupVars, engineVars, passVars, given_amount,
                  given_from, given_to, given_ingredient, converted >>

NextConvert ==
  \/ Convert
  \/ ConvertBack

SpecConvert == InitConvert /\ [][NextConvert]_vars

-----------------------------------------------------------------------------
(* Table specification: a caller takes the ingredient of an entry of the   *)
(* restriction table and a diet of get_all_diets() and looks the pair up.  *)

InitTable ==
  /\ pc = "input"
  /\ asked_diets = << >>
  /\ CanonIdle
  /\ LookupIdle
  /\ EngineIdle
  /\ UnitsIdle
  /\ PassIdle

\* the caller takes the ingredient of the e-th entry and a diet
PickEntry(e) ==
  /\ pc = "input"
  /\ raw = ""
  /\ e \in 1..Len(restrictions)
  /\ raw' = restrictions[e].value.original_ingredient
  /\ \E diet \in get_all_diets : asked_diets' = << diet >>
  /\ UNCHANGED << pc, typed, canonical, recanonical, lookupVars, engineVars, unitVars, passVars >>

NextTable ==
  \/ \E e \in 1..Len(restrictions) : PickEntry(e)
  \/ LookUp(1)

SpecTable == InitTable /\ [][NextTable]_vars

-----------------------------------------------------------------------------
(* Reconciler specification: a caller applies a list of diets to a recipe *)

\* the diets the caller applies
RecipeDiets == {"vegan", "egg-free", "gluten-free", "dairy-free", "keto"}

Init ==
  /\ pc = "input"
  /\ asked_diets \in ListsUpTo(RecipeDiets, MaxDiets)
  /\ CanonIdle
  /\ LookupIdle
  /\ UnitsIdle
  /\ PassIdle
  /\ recipe \in {[i \in 1..Len(names) |-> RecipeIngredient(names[i], "1 cup", "cup", 1, "")] :
                   names \in ListsUpTo(RecipeNames, MaxIngredients)}
  /\ sorted_diets = << >>
  /\ current_ingredients = << >>
  /\ substituted_ingredients = {}
  /\ substitution_history = << >>
  /\ diet_changes = << >>
  /\ all_warnings = << >>
  /\ change_log = << >>
  /\ replaced_at = << >>
  /\ diet_at = 0
  /\ ingredient_at = 0
  /\ result = NoResult

\* entry of apply_composite_diets: the diets are sorted and the locals set up
Call ==
  /\ pc = "input"
  /\ sorted_diets' = SortedByPriority(asked_diets)
  /\ current_ingredients' = recipe
  /\ substituted_ingredients' = {}
  /\ substitution_history' = << >>
  /\ diet_changes' = << >>
  /\ all_warnings' = << >>
  /\ change_log' = << >>
  /\ replaced_at' = << >>
  /\ diet_at' = 1
  /\ ingredient_at' = 1
  /\ pc' = "pass"
  /\ UNCHANGED << asked_diets, canonVars, lookupVars, unitVars, passVars, recipe, result >>

\* one iteration of the inner loop: the ingredient at ingredient_at under the
\* diet at diet_at
VisitIngredient ==
  /\ pc = "pass"
  /\ diet_at <= Len(sorted_diets)
  /\ ingredient_at <= Len(current_ingredients)
  /\ LET diet == sorted_diets[diet_at]
         ingredient == current_ingredients[ingredient_at]
         options == get_substitution_options(ingredient.name, diet)
         remaining_diets == SelectSeq(sorted_diets, LAMBDA d : d # diet)
     IN IF ingredient.name \in substituted_ingredients
        THEN UNCHANGED << current_ingredients, substituted_ingredients, diet_changes,
                          change_log, replaced_at, all_warnings >>
        ELSE IF ~ is_forbidden(ingredient.name, diet)
        THEN UNCHANGED << current_ingredients, substituted_ingredients, diet_changes,
                          change_log, replaced_at, all_warnings >>
        ELSE IF options = << >>
        THEN /\ all_warnings' =
                  Append(all_warnings,
                         "No substitution found for '" \o ingredient.name
                            \o "' on " \o diet \o " diet")
             /\ UNCHANGED << current_ingredients, substituted_ingredients, diet_changes,
                             change_log, replaced_at >>
        ELSE \E common_subs \in
                  find_common_substitutions(ingredient.name, << diet >> \o remaining_diets) :
               LET selected_option ==
                     IF common_subs # << >> THEN common_subs[1] ELSE options[1]
                   new_ingredient ==
                     RecipeIngredient(selected_option.name, ingredient.amount,
                       ingredient.unit, ingredient.quantity,
                       ingredient.notes \o " (substituted for " \o ingredient.name \o ")")
                   ingredient_index == Index(current_ingredients, ingredient)
               IN /\ current_ingredients' =
                       [current_ingredients EXCEPT ![ingredient_index] = new_ingredient]
                  /\ substituted_ingredients' =
                       substituted_ingredients \cup {ingredient.name}
                  /\ diet_changes' =
                       Append(diet_changes,
                              [diet |-> diet,
                               original |-> ingredient.name,
                               substitution |-> selected_option.name,
                               reasoning |-> "Applied for " \o diet \o " diet compatibility"])
                  /\ change_log' =
                       Append(change_log,
                              "[" \o diet \o "] Replaced '" \o ingredient.name
                                 \o "' with '" \o selected_option.name \o "'")
                  /\ replaced_at' = Append(replaced_at, ingredient_index)
                  /\ UNCHANGED all_warnings
  /\ ingredient_at' = ingredient_at + 1
  /\ UNCHANGED << pc, asked_diets, canonVars, lookupVars, unitVars, passVars, recipe, sorted_diets,
                  substitution_history, diet_at, result >>

\* end of the inner loop: the diet's changes are recorded, the next diet begins
EndDiet ==
  /\ pc = "pass"
  /\ diet_at <= Len(sorted_diets)
  /\ ingredient_at > Len(current_ingredients)
  /\ substitution_history' =
       IF diet_changes # << >>
       THEN Append(substitution_history,
                   [diet |-> sorted_diets[diet_at],
                    changes |-> diet_changes,
                    ingredients_affected |-> Len(diet_changes)])
       ELSE substitution_history
  /\ diet_changes' = << >>
  /\ diet_at' = diet_at + 1
  /\ ingredient_at' = 1
  /\ UNCHANGED << pc, asked_diets, canonVars, lookupVars, unitVars, passVars, recipe, sorted_diets,
                  current_ingredients, substituted_ingredients, all_warnings,
                  change_log, replaced_at, result >>

\* the lists the final loop over current_ingredients can collect from
\* detect_diet_conflicts, from ingredient i on
RECURSIVE ConflictsFrom(_, _, _)
ConflictsFrom(ingredients, sorted, i) ==
  IF i > Len(ingredients) THEN {<< >>}
  ELSE {conflicts \o more :
          conflicts \in detect_diet_conflicts(ingredients[i].name, sorted),
          more \in ConflictsFrom(ingredients, sorted, i + 1)}

\* after the last diet: final validation, the success flag and the return
Return ==
  /\ pc = "pass"
  /\ diet_at > Len(sorted_diets)
  /\ \E all_conflicts \in ConflictsFrom(current_ingredients, sorted_diets, 1),
        final_compliance \in {validate_final_compliance(current_ingredients, sorted_diets)} :
       LET critical_conflicts == SelectSeq(all_conflicts, LAMBDA c : c.severity = "error")
           success == final_compliance /\ Len(critical_conflicts) = 0
       IN result' = [original_recipe |-> recipe,
                     applied_diets |-> sorted_diets,
                     final_ingredients |-> current_ingredients,
                     substitution_history |-> substitution_history,
                     conflicts |-> all_conflicts,
                     warnings |-> all_warnings,
                     change_log |-> change_log,
                     success |-> success]
  /\ pc' = "done"
  /\ UNCHANGED << asked_diets, canonVars, lookupVars, unitVars, passVars, recipe, sorted_diets,
                  current_ingredients, substituted_ingredients, substitution_history,
                  diet_changes, all_warnings, change_log, replaced_at, diet_at,
                  ingredient_at >>

Next ==
  \/ Call
  \/ VisitIngredient
  \/ EndDiet
  \/ Return

Spec == Init /\ [][Next]_vars

-----------------------------------------------------------------------------
(* Unit-aware specification: a caller looks an ingredient up, or runs the  *)
(* reconciler or the unit-aware pass on a recipe under a list of diets, or *)
(* applies one substitution by name                                        *)

\* the diets the caller asks for; "pescatarian" and "carnivore" are not diets
\* of the table
UnitDiets == {"vegan", "pescatarian", "carnivore"}

\* the substitution names the caller asks for: offered for eggs, the same in
\* capitals, and offered for no ingredient of the recipes
SubstitutionNames == {"flax egg", "FLAX EGG", "unicorn"}

InitUnits ==
  /\ pc = "input"
  /\ raw = "eggs"
  /\ typed = 0 /\ canonical = "" /\ recanonical = ""
  /\ asked_diets \in ListsUpTo(UnitDiets, MaxDiets)
  /\ LookupIdle
  /\ UnitsIdle
  /\ PassIdle
  /\ recipe \in {[i \in 1..Len(names) |->
                    RecipeIngredient(names[i], "1 cup", "cup", Dec(10, 1), "")] :
                   names \in ListsUpTo(RecipeNames, MaxIngredients)}
  /\ sorted_diets = << >>
  /\ current_ingredients = << >>
  /\ substituted_ingredients = {}
  /\ substitution_history = << >>
  /\ diet_changes = << >>
  /\ all_warnings = << >>
  /\ change_log = << >>
  /\ replaced_at = << >>
  /\ diet_at = 0
  /\ ingredient_at = 0
  /\ result = NoResult

\* entry of process_recipe_with_units, on the caller's recipe and diets
CallWithUnits ==
  /\ pc = "input"
  /\ substitutions' = << >>
  /\ unchanged_ingredients' = << >>
  /\ warnings' = << >>
  /\ unit_change_log' = << >>
  /\ unit_at' = 1
  /\ pc' = "units"
  /\ UNCHANGED << asked_diets, canonVars, lookupVars, engineVars, unitVars,
                  applied_with_units, unit_result, parsed_amount, recipe_output >>

\* one iteration of the loop of process_recipe_with_units
VisitWithUnits ==
  /\ pc = "units"
  /\ unit_at <= Len(recipe)
  /\ \E ingredient \in {recipe[unit_at]} :
     \E diet \in {applicable_diet(ingredient, asked_diets)} :
       IF ~ diet.needs_substitution
       THEN /\ unchanged_ingredients' = Append(unchanged_ingredients, ingredient)
            /\ UNCHANGED << substitutions, warnings, unit_change_log >>
       ELSE
         \E options \in {get_substitution_options(ingredient.name, diet.applicable_diet)} :
           IF options = << >>
           THEN /\ warnings' =
                     Append(warnings, "No substitution found for '" \o ingredient.name
                                        \o "' on " \o diet.applicable_diet \o " diet")
                /\ unchanged_ingredients' = Append(unchanged_ingredients, ingredient)
                /\ UNCHANGED << substitutions, unit_change_log >>
           ELSE
             \E selected_option \in {options[1]} :
             \E substitution \in
                  {apply_substitution_with_units(ingredient, selected_option.name,
                                                 diet.applicable_diet)} :
               IF HasRaised(substitution)
               THEN /\ warnings' =
                         Append(warnings, "Failed to substitute '" \o ingredient.name
                                            \o "': " \o substitution.message)
                    /\ unchanged_ingredients' = Append(unchanged_ingredients, ingredient)
                    /\ UNCHANGED << substitutions, unit_change_log >>
               ELSE /\ substitutions' = Append(substitutions, substitution)
                    /\ unit_change_log' =
                         unit_change_log
                           \o << "Replaced '" \o ingredient.name \o "' ("
                                   \o ingredient.amount \o ") with '"
                                   \o substitution.substituted_ingredient \o "' ("
                                   \o substitution.substituted_amount \o ")" >>
                           \o (IF substitution.conversion_applied
                               THEN \* the arrow of the source text is written "->"
                                    << "  Applied unit conversion: "
                                         \o FloatStr(substitution.conversion_result.original_amount)
                                         \o " "
                                         \o substitution.conversion_result.original_unit
                                         \o " -> "
                                         \o FormatQuantity(
                                              substitution.conversion_result.converted_amount)
                                         \o " "
                                         \o substitution.conversion_result.converted_unit >>
                               ELSE << >>)
                    /\ UNCHANGED << warnings, unchanged_ingredients >>
  /\ unit_at' = unit_at + 1
  /\ UNCHANGED << pc, asked_diets, canonVars, lookupVars, engineVars, unitVars,
                  applied_with_units, unit_result, parsed_amount, recipe_output >>

\* after the last ingredient: the success flag and the return
ReturnWithUnits ==
  /\ pc = "units"
  /\ unit_at > Len(recipe)
  /\ unit_result' =
       UnitAwareRecipeResult(recipe, asked_diets, substitutions, unchanged_ingredients,
                             warnings, unit_change_log, Len(warnings) = 0)
  /\ pc' = "units_done"
  /\ UNCHANGED << asked_diets, canonVars, lookupVars, engineVars, unitVars,
                  applied_with_units, parsed_amount, recipe_output, substitutions,
                  unchanged_ingredients, warnings,
                  unit_change_log, unit_at >>

\* the caller applies the substitution named substitution_name to the i-th
\* ingredient of the recipe under the k-th diet
ApplyWithUnits(i, k, substitution_name) ==
  /\ pc = "input"
  /\ i \in 1..Len(recipe)
  /\ k \in 1..Len(asked_diets)
  /\ applied_with_units' =
       [ingredient |-> recipe[i],
        substitution_name |-> substitution_name,
        diet_type |-> asked_diets[k],
        returned |-> apply_substitution_with_units(recipe[i], substitution_name,
                                                   asked_diets[k])]
  /\ pc' = "applied"
  /\ UNCHANGED << asked_diets, canonVars, lookupVars, engineVars, unitVars,
                  substitutions, unchanged_ingredients, warnings, unit_change_log,
                  unit_at, unit_result, parsed_amount, recipe_output >>

\* transform_recipe, once its call of process_recipe_with_units has returned:
\* the output lists are built from the result.  The names, the instructions
\* and the servings of the recipe, and the notes and the confidence of a
\* substitution, are left out.
ReturnTransformed ==
  /\ pc = "units_done"
  /\ recipe_output' =
       [diet_restrictions |-> asked_diets,
        original_ingredients |-> recipe,
        transformed_ingredients |->
          [i \in 1..Len(unit_result.unchanged_ingredients) |->
             [name |-> unit_result.unchanged_ingredients[i].name,
              amount |-> unit_result.unchanged_ingredients[i].amount,
              unit |-> unit_result.unchanged_ingredients[i].unit,
              quantity |-> unit_result.unchanged_ingredients[i].quantity,
              notes |-> unit_result.unchanged_ingredients[i].notes]]
            \o [i \in 1..Len(unit_result.substitutions) |->
                  [name |-> unit_result.substitutions[i].substituted_ingredient,
                   amount |-> unit_result.substitutions[i].substituted_amount,
                   unit |-> unit_result.substitutions[i].substituted_unit,
                   quantity |-> unit_result.substitutions[i].substituted_quantity,
                   notes |-> "Substituted for "
                               \o unit_result.substitutions[i].original_ingredient]],
        substitutions |->
          [i \in 1..Len(unit_result.substitutions) |->
             [original_ingredient |-> unit_result.substitutions[i].original_ingredient,
              original_amount |-> unit_result.substitutions[i].original_amount,
              substituted_ingredient |-> unit_result.substitutions[i].substituted_ingredient,
              substituted_amount |-> unit_result.substitutions[i].substituted_amount,
              conversion_applied |-> unit_result.substitutions[i].conversion_applied,
              substitution_ratio |-> unit_result.substitutions[i].substitution_ratio]],
        unchanged_ingredients |-> unit_result.unchanged_ingredients,
        warnings |-> unit_result.warnings,
        change_log |-> unit_result.change_log,
        success |-> unit_result.success]
  /\ pc' = "transformed"
  /\ UNCHANGED << asked_diets, canonVars, lookupVars, engineVars, unitVars,
                  applied_with_units, substitutions, unchanged_ingredients, warnings,
                  unit_change_log, unit_at, unit_result, parsed_amount >>

NextUnits ==
  \/ \E k \in 1..MaxDiets : LookUp(k)
  \/ Call
  \/ VisitIngredient
  \/ EndDiet
  \/ Return
  \/ CallWithUnits
  \/ VisitWithUnits
  \/ ReturnWithUnits
  \/ ReturnTransformed
  \/ \E i \in 1..MaxIngredients, k \in 1..MaxDiets, substitution_name \in SubstitutionNames :
       ApplyWithUnits(i, k, substitution_name)

SpecUnits == InitUnits /\ [][NextUnits]_vars

-----------------------------------------------------------------------------
(* Long-list specification: the callers of the unit-aware specification    *)
(* with longer lists of diets, known and unknown, and shorter recipes      *)

\* the diets the caller lists are three diets of the priority list, keto and
\* gluten-free forbidding flour and vegan eggs, and two diets that are not of
\* the list
InitLists ==
  /\ pc = "input"
  /\ raw = "eggs"
  /\ typed = 0 /\ canonical = "" /\ recanonical = ""
  /\ asked_diets \in ListsUpTo({"keto", "vegan", "gluten-free", "pescatarian", "carnivore"},
                              MaxListed)
  /\ LookupIdle
  /\ UnitsIdle
  /\ PassIdle
  /\ recipe \in {[i \in 1..Len(names) |->
                    RecipeIngredient(names[i], "1 cup", "cup", Dec(10, 1), "")] :
                   names \in ListsUpTo({"eggs", "flour"}, MaxShort)}
  /\ sorted_diets = << >>
  /\ current_ingredients = << >>
  /\ substituted_ingredients = {}
  /\ substitution_history = << >>
  /\ diet_changes = << >>
  /\ all_warnings = << >>
  /\ change_log = << >>
  /\ replaced_at = << >>
  /\ diet_at = 0
  /\ ingredient_at = 0
  /\ result = NoResult

SpecLists == InitLists /\ [][NextUnits]_vars

-----------------------------------------------------------------------------
(* Amount specification: a caller hands parse_amount the text of an amount *)

\* the numbers callers write: whole, decimal, a fraction, a mixed number, none
AmountNumbers == {"0", "3", "2.5", "500", "1/2", "1 1/2", ""}

\* what callers write after the number: nothing, a unit, a unit in capitals,
\* a unit and more words
AmountWords == {"", "cup", "Cups", "g", "large eggs"}

InitParse ==
  /\ pc = "input"
  /\ raw \in {number \o space \o word :
                number \in AmountNumbers, space \in {"", " ", "  "}, word \in AmountWords}
  /\ typed = 0 /\ canonical = "" /\ recanonical = ""
  /\ asked_diets = << >>
  /\ LookupIdle
  /\ EngineIdle
  /\ UnitsIdle
  /\ PassIdle

ParseAmount ==
  /\ pc = "input"
  /\ parsed_amount' = parse_amount(raw)
  /\ pc' = "parsed"
  /\ UNCHANGED << asked_diets, canonVars, lookupVars, engineVars, unitVars,
                  applied_with_units, substitutions, unchanged_ingredients, warnings,
                  unit_change_log, unit_at, unit_result, recipe_output >>

NextParse == ParseAmount

SpecParse == InitParse /\ [][NextParse]_vars

-----------------------------------------------------------------------------
(* Properties                                                              *)

\* the forbidden tags of the table entries that belong to one of the diets
TagsOfDiets(applied) ==
  UNION {Range(load_from_table[e].value.forbidden_tags) :
           e \in {e \in 1..Len(load_from_table) :
                    \E k \in 1..Len(applied) :
                      load_from_table[e].value.diet_type = applied[k]}}

\* the canonical name of an ingredient of the list contains, letter case
\* apart, a forbidden tag of the diets
SomeForbiddenTag(ingredients, applied) ==
  \E tag \in TagsOfDiets(applied) :
    \E i \in 1..Len(ingredients) :
      Contains(Lower(Canonical(ingredients[i].name)), Lower(tag))

\* positions of the recipe whose ingredient is forbidden under an asked diet
OriginallyForbidden ==
  {i \in 1..Len(recipe) :
     \E k \in 1..Len(asked_diets) : is_forbidden(recipe[i].name, asked_diets[k])}

\* number of replacements made at position i of the ingredient list
ReplacementsAt(i) == Cardinality({n \in 1..Len(replaced_at) : replaced_at[n] = i})

\* C1: when every forbidden ingredient of the recipe has substitution options,
\* apply_composite_diets returns success = true, has replaced each originally
\* forbidden ingredient exactly once and no other, and no final ingredient's
\* canonical name contains a forbidden tag of the applied diets.
C1_ReconciledRecipeComplies ==
  (/\ pc = "done"
   /\ \A i \in OriginallyForbidden : \A k \in 1..Len(asked_diets) :
        is_forbidden(recipe[i].name, asked_diets[k])
          => get_substitution_options(recipe[i].name, asked_diets[k]) # << >>)
  => /\ result.success
     /\ \A i \in 1..Len(recipe) :
          ReplacementsAt(i) = IF i \in OriginallyForbidden THEN 1 ELSE 0
     /\ Len(result.change_log) = Cardinality(OriginallyForbidden)
     /\ ~ SomeForbiddenTag(result.final_ingredients, result.applied_diets)

\* C2: in one apply_composite_diets run no position of the ingredient list is
\* replaced more than once, whatever the number of diets that forbid it.
C2_EachPositionReplacedAtMostOnce ==
  \A i \in 1..Len(current_ingredients) : ReplacementsAt(i) <= 1

\* C3: no ingredient of the final list is forbidden under an applied diet.
C3_FinalIngredientsAllowed ==
  pc = "done"
  => \A i \in 1..Len(result.final_ingredients) :
       \A k \in 1..Len(result.applied_diets) :
         ~ is_forbidden(result.final_ingredients[i].name, result.applied_diets[k])

\* C5: success is true exactly when no final ingredient's canonical name
\* contains a forbidden tag of an applied diet and no conflict has severity
\* error; info and warning conflicts do not enter.
C5_SuccessIsComplianceAndNoError ==
  pc = "done"
  => (result.success
        <=> /\ ~ SomeForbiddenTag(result.final_ingredients, result.applied_diets)
            /\ \A c \in 1..Len(result.conflicts) :
                 result.conflicts[c].severity # "error")

\* a successful result that carries a warning conflict
C5_SuccessWithWarning ==
  /\ pc = "done"
  /\ result.success
  /\ result.change_log # << >>
  /\ \E c \in 1..Len(result.conflicts) : result.conflicts[c].severity = "warning"

\* C6: is_forbidden(i, d) is true exactly when get_substitution_options(i, d)
\* is non-empty, for the knowledge base and for the unified system.
C6_ForbiddenIffOptions ==
  pc = "looked_up"
  => /\ lookup.kb_forbidden <=> (Len(lookup.kb_options) > 0)
     /\ lookup.forbidden <=> (Len(lookup.options) > 0)

\* a name that is a key only once lower-cased, forbidden in both systems
C6_ForbiddenCapitalized ==
  /\ pc = "looked_up"
  /\ raw = "Eggs"
  /\ lookup.kb_forbidden
  /\ lookup.forbidden

\* the lower-cased names of the options the unified system lists for diet
NamesOffered(ingredient, diet) ==
  LET options == get_substitution_options(ingredient, diet)
  IN {Lower(options[k].name) : k \in 1..Len(options)}

\* the names offered under every diet of the list
NamesOfferedByAll(ingredient, diet_list) ==
  {name \in UNION {NamesOffered(ingredient, diet_list[k]) : k \in 1..Len(diet_list)} :
     \A k \in 1..Len(diet_list) : name \in NamesOffered(ingredient, diet_list[k])}

\* C7: find_common_substitutions returns exactly one option for each name
\* offered under every diet of the list and no other option, each the option
\* object of the highest-priority listed diet that offers the name; nothing
\* for an empty list; and something for eggs under vegan and egg-free.
C7_CommonSubstitutions ==
  pc = "common"
  => /\ {Lower(common[i].name) : i \in 1..Len(common)}
          = NamesOfferedByAll(raw, asked_diets)
     /\ Len(common) = Cardinality(NamesOfferedByAll(raw, asked_diets))
     /\ \A i \in 1..Len(common) :
          /\ common[i].diet_type \in Range(asked_diets)
          /\ \E k \in 1..Len(get_substitution_options(raw, common[i].diet_type)) :
               get_substitution_options(raw, common[i].diet_type)[k] = common[i]
          /\ \A d \in Range(asked_diets) :
               Lower(common[i].name) \in NamesOffered(raw, d)
                 => PriorityKey(common[i].diet_type) <= PriorityKey(d)
     /\ asked_diets = << >> => common = << >>
     /\ (raw = "eggs" /\ Range(asked_diets) = {"vegan", "egg-free"}) => common # << >>

\* the three common egg substitutes, listed lower priority first, come back
\* as the vegan entry's objects
C7_EggsLowerPriorityFirst ==
  /\ pc = "common"
  /\ raw = "eggs"
  /\ asked_diets = << "egg-free", "vegan" >>
  /\ Len(common) = 3
  /\ \A i \in 1..Len(common) : common[i].diet_type = "vegan"

\* the diets of the list under which the ingredient is forbidden, in list order
ForbiddingDiets(ingredient, diet_list) ==
  SelectSeq(diet_list, LAMBDA d : is_forbidden(ingredient, d))

\* C8: detect_diet_conflicts returns nothing when no listed diet forbids the
\* ingredient; one info single_diet_restriction record when one does; and when
\* two or more do, one record listing them, error no_common_substitution if
\* they share no substitution name, else warning multiple_diet_restriction
\* whose resolution names a first common substitution.
C8_DetectedConflicts ==
  pc = "detected"
  => LET forbidding == ForbiddingDiets(raw, asked_diets)
         shared == NamesOfferedByAll(raw, forbidding)
     IN /\ Len(forbidding) = 0 => detected = << >>
        /\ Len(forbidding) >= 1
             => /\ Len(detected) = 1
                /\ detected[1].ingredient = raw
                /\ detected[1].conflicting_diets = forbidding
        /\ Len(forbidding) = 1
             => /\ detected[1].severity = "info"
                /\ detected[1].conflict_type = "single_diet_restriction"
        /\ (Len(forbidding) >= 2 /\ shared = {})
             => /\ detected[1].severity = "error"
                /\ detected[1].conflict_type = "no_common_substitution"
        /\ (Len(forbidding) >= 2 /\ shared # {})
             => /\ detected[1].severity = "warning"
                /\ detected[1].conflict_type = "multiple_diet_restriction"
                /\ \E common_subs \in find_common_substitutions(raw, forbidding) :
                     /\ common_subs # << >>
                     /\ detected[1].suggested_resolution
                          = "Use common substitution: " \o common_subs[1].name

\* a substitute forbidden under both listed diets draws one warning
C8_WarningForTwoDiets ==
  /\ pc = "detected"
  /\ raw = "oat milk"
  /\ asked_diets = << "vegan", "dairy-free" >>
  /\ Len(detected) = 1
  /\ detected[1].severity = "warning"

\* C9: for the same ingredient and the same diets every run of
\* find_common_substitutions returns the same options in the same order.
C9_SameListEveryRun ==
  pc = "common_again" => common_again = common

\* C10: canonicalize(canonicalize(s)) = canonicalize(s) for every raw name s.
C10_CanonicalizeIdempotent ==
  pc = "recanonical" => recanonical = canonical

\* C11: canonicalize maps the canonical name and every alias of an alias
\* group, in any letter case, to the group's canonical name; in particular
\* "AP flour" and "all-purpose flour" canonicalize equally.
C11_AliasesReachCanonical ==
  /\ pc = "canonical"
       => \A g \in 1..Len(AliasGroups) :
            \A name \in GroupNames(AliasGroups[g]) :
              raw \in Spellings(name) => canonical = AliasGroups[g].canonical
  /\ canonicalize("AP flour") = canonicalize("all-purpose flour")

\* the alias "ap flour", written "AP flour", has reached "flour"
C11_ApFlourCanonical ==
  /\ pc = "canonical"
  /\ raw = "AP flour"
  /\ canonical = "flour"

\* the entries of the table for the pair the caller looked up
EntriesAsked ==
  {e \in 1..Len(restrictions) :
     /\ restrictions[e].value.original_ingredient = raw
     /\ restrictions[e].value.diet_type = lookup.diet
     /\ restrictions[e].value.substitution_options # << >>}

\* C12: for each table entry with ingredient i, diet d and a non-empty option
\* list, the knowledge base's get_substitution_options(i, d) returns the
\* entry's options and is_forbidden(i, d) is true, low-fodmap included.
C12_EntryFoundUnderItsPair ==
  pc = "looked_up"
  => \A e \in EntriesAsked :
       /\ lookup.kb_options = restrictions[e].value.substitution_options
       /\ lookup.kb_forbidden

\* C13: the ingredient of every table entry is a fixed point of canonicalize,
\* and the unified lookup of an entry's own ingredient and diet finds the
\* entry: its options are returned and the ingredient is reported forbidden.
C13_EntryIngredientCanonical ==
  pc = "looked_up"
  => \A e \in EntriesAsked :
       /\ Canonical(raw) = raw
       /\ lookup.options = restrictions[e].value.substitution_options
       /\ lookup.forbidden

\* a unit string as the converter compares it: lower-cased and trimmed
UnitKey(unit) == Strip(Lower(unit))

\* the scale of a known unit to the base unit of its dimension
FactorOf(unit) == DictGet(units, UnitKey(unit)).base_factor

\* C15: convert(x, u, u) succeeds with converted amount x and factor 1.0 for
\* any unit string u, known or not, units compared lower-cased and trimmed.
C15_SameUnitIsIdentity ==
  (pc = "converted" /\ UnitKey(given_from) = UnitKey(given_to))
  => /\ ~ HasRaised(converted)
     /\ converted.success
     /\ converted.converted_amount = given_amount
     /\ converted.conversion_factor = Dec(10, 1)

\* a string that names no unit, converted to itself
C15_UnknownUnitToItself ==
  /\ pc = "converted"
  /\ given_from = "xx"
  /\ given_to = "xx"
  /\ given_amount = Rat(2, 1)
  /\ converted.success
  /\ converted.converted_amount = Rat(2, 1)

\* C16: for two different known units of one dimension convert succeeds and
\* the converted amount is amount * factor(from_unit) / factor(to_unit);
\* 1 cup is 236.588 ml and 1 lb is 16 oz.
C16_SameDimensionScales ==
  (/\ pc = "converted"
   /\ UnitKey(given_from) # UnitKey(given_to)
   /\ get_unit_type(given_from) # "unknown"
   /\ get_unit_type(given_from) = get_unit_type(given_to))
  => /\ ~ HasRaised(converted)
     /\ converted.success
     /\ converted.converted_amount
          = RatDiv(RatMul(given_amount, FactorOf(given_from)), FactorOf(given_to))
     /\ (given_amount = Rat(1, 1) /\ given_from = "cup" /\ given_to = "ml")
          => converted.converted_amount = Dec(236588, 3)
     /\ (given_amount = Rat(1, 1) /\ given_from = "lb" /\ given_to = "oz")
          => converted.converted_amount = Rat(16, 1)

\* one pound has been converted to sixteen ounces
C16_PoundToOunces ==
  /\ pc = "converted"
  /\ given_amount = Rat(1, 1)
  /\ given_from = "lb"
  /\ given_to = "oz"
  /\ converted.success
  /\ converted.converted_amount = Rat(16, 1)

\* C17: convert(1, "tbsp", "tsp") returns exactly 3.
C17_TablespoonIsThreeTeaspoons ==
  (/\ pc = "converted"
   /\ given_amount = Rat(1, 1)
   /\ given_from = "tbsp"
   /\ given_to = "tsp")
  => /\ ~ HasRaised(converted)
     /\ converted.success
     /\ converted.converted_amount = Rat(3, 1)

\* the density of an ingredient that has a density entry
DensityOf(ingredient) == DictGet(densities, Lower(ingredient)).density_g_per_ml

\* C18: between a mass unit and a volume unit, for an ingredient with a
\* density entry rho, convert succeeds; volume to mass gives
\* amount * factor(from) * rho / factor(to), mass to volume gives
\* amount * factor(from) / rho / factor(to); converting the result back
\* returns the original amount; 1 cup of flour is 141.9528 g.
C18_CrossDimensionByDensity ==
  /\ (/\ pc \in {"converted", "converted_back"}
      /\ {get_unit_type(given_from), get_unit_type(given_to)} = {"mass", "volume"}
      /\ DictHas(densities, Lower(given_ingredient)))
     => /\ ~ HasRaised(converted)
        /\ converted.success
        /\ get_unit_type(given_from) = "volume"
             => converted.converted_amount
                  = RatDiv(RatMul(RatMul(given_amount, FactorOf(given_from)),
                                  DensityOf(given_ingredient)),
                           FactorOf(given_to))
        /\ get_unit_type(given_from) = "mass"
             => converted.converted_amount
                  = RatDiv(RatDiv(RatMul(given_amount, FactorOf(given_from)),
                                  DensityOf(given_ingredient)),
                           FactorOf(given_to))
        /\ (given_amount = Rat(1, 1) /\ given_from = "cup" /\ given_to = "g"
               /\ given_ingredient = "flour")
             => converted.converted_amount = Dec(1419528, 4)
  /\ (/\ pc = "converted_back"
      /\ {get_unit_type(given_from), get_unit_type(given_to)} = {"mass", "volume"})
     => /\ ~ HasRaised(converted_back)
        /\ converted_back.success
        /\ converted_back.converted_amount = given_amount

\* C19: convert between two different unit strings returns a failure as data,
\* success = false with a non-empty message, when a unit is unknown, when the
\* dimensions differ and are not mass and volume, and when they are mass and
\* volume but the ingredient has no density entry.
C19_FailureAsData ==
  (/\ pc = "converted"
   /\ UnitKey(given_from) # UnitKey(given_to)
   /\ LET from_type == get_unit_type(given_from)
          to_type == get_unit_type(given_to)
      IN \/ from_type = "unknown"
         \/ to_type = "unknown"
         \/ from_type # to_type /\ {from_type, to_type} # {"mass", "volume"}
         \/ /\ {from_type, to_type} = {"mass", "volume"}
            /\ ~ DictHas(densities, Lower(given_ingredient)))
  => /\ ~ HasRaised(converted)
     /\ ~ converted.success
     /\ converted.error_message # ""

\* a cup of an ingredient without a density entry is not converted to grams
C19_NoDensityForEggs ==
  /\ pc = "converted"
  /\ given_from = "cup"
  /\ given_to = "g"
  /\ given_ingredient = "eggs"
  /\ ~ converted.success
  /\ converted.error_message = "No density information available for eggs"

\* no entry of the table is written for the ingredient under the diet
NoEntryFor(ingredient, diet) ==
  ~ \E e \in 1..Len(load_from_table) :
      /\ load_from_table[e].value.original_ingredient = ingredient
      /\ load_from_table[e].value.diet_type = diet

\* C14: a lookup for an (ingredient, diet) pair the table has no entry for
\* answers "not forbidden" with no options, in the knowledge base and in the
\* unified system, and nothing else happens; a recipe processed under diets
\* that are all unrecognized comes back unchanged with no substitution, no
\* warning, no conflict and success = true, from the reconciler and from the
\* unit-aware pass (a diet is unrecognized when no entry of the table carries
\* it); under any diets the unit-aware pass leaves an ingredient
\* unchanged that has no entry under any of them.
C14_MissIsSilentlyAllowed ==
  /\ pc = "looked_up" /\ NoEntryFor(Strip(Lower(raw)), lookup.diet)
       => ~ lookup.kb_forbidden /\ lookup.kb_options = << >>
  /\ pc = "looked_up" /\ NoEntryFor(Canonical(raw), lookup.diet)
       => ~ lookup.forbidden /\ lookup.options = << >>
  /\ result # NoResult /\ Range(asked_diets) \cap get_all_diets = {}
       => /\ result.final_ingredients = recipe
          /\ result.original_recipe = recipe
          /\ result.substitution_history = << >>
          /\ result.change_log = << >>
          /\ result.warnings = << >>
          /\ result.conflicts = << >>
          /\ result.success
  /\ pc = "units_done" /\ Range(asked_diets) \cap get_all_diets = {}
       => /\ unit_result.unchanged_ingredients = recipe
          /\ unit_result.original_recipe = recipe
          /\ unit_result.substitutions = << >>
          /\ unit_result.change_log = << >>
          /\ unit_result.warnings = << >>
          /\ unit_result.success
  /\ pc = "units_done"
       => \A i \in 1..Len(recipe) :
            (\A k \in 1..Len(asked_diets) :
               NoEntryFor(Canonical(recipe[i].name), asked_diets[k]))
              => /\ \E j \in 1..Len(unit_result.unchanged_ingredients) :
                      unit_result.unchanged_ingredients[j] = recipe[i]
                 /\ \A j \in 1..Len(unit_result.substitutions) :
                      unit_result.substitutions[j].original_ingredient # recipe[i].name

\* the unit-aware pass has returned for a recipe with eggs, which the table
\* forbids under its own diets, processed under two unrecognized diets
C14_EggsUnderUnrecognizedDiets ==
  /\ pc = "units_done"
  /\ asked_diets = << "pescatarian", "carnivore" >>
  /\ \E i \in 1..Len(recipe) : recipe[i].name = "eggs"
  /\ unit_result.success
  /\ unit_result.unchanged_ingredients = recipe

\* C20: no public core operation raises: convert and
\* apply_substitution_with_units return a result value for every input, in
\* particular for a substitution name that is not among the offered options.
C20_NoOperationRaises ==
  /\ pc = "converted" => ~ HasRaised(converted)
  /\ pc = "applied" => ~ HasRaised(applied_with_units.returned)

\* C21: parse_amount on a number with no unit returns that number with an
\* empty unit; on a number, white space and a word it returns that number and
\* that word.
C21_NumberAndUnitParsed ==
  pc = "parsed" =>
    \A number \in {<< "0", Rat(0, 1) >>, << "3", Rat(3, 1) >>, << "2.5", Dec(25, 1) >>,
                   << "500", Rat(500, 1) >>} :
      /\ Strip(raw) = number[1]
           => parsed_amount = [quantity |-> number[2], unit |-> ""]
      /\ \A space \in {" ", "  "}, word \in {"cup", "g"} :
           raw = number[1] \o space \o word
             => parsed_amount = [quantity |-> number[2], unit |-> word]

\* C22: process_recipe_with_units substitutes every ingredient that a diet of
\* the caller's list forbids, under the first diet of the list, in the caller's
\* order, that forbids it and with the first option listed for that diet; an
\* ingredient no diet of the list forbids is unchanged.
C22_FirstListedDietFirstOption ==
  pc = "units_done" =>
    \E forbidden \in {SelectSeq(recipe, LAMBDA ingredient :
                                  \E k \in 1..Len(asked_diets) :
                                    is_forbidden(ingredient.name, asked_diets[k]))} :
      /\ unit_result.unchanged_ingredients =
           SelectSeq(recipe, LAMBDA ingredient :
                               \A k \in 1..Len(asked_diets) :
                                 ~ is_forbidden(ingredient.name, asked_diets[k]))
      /\ Len(unit_result.substitutions) = Len(forbidden)
      /\ \A i \in 1..Len(forbidden) :
           \E first \in {k \in 1..Len(asked_diets) :
                           /\ is_forbidden(forbidden[i].name, asked_diets[k])
                           /\ \A j \in 1..(k - 1) :
                                ~ is_forbidden(forbidden[i].name, asked_diets[j])} :
             /\ unit_result.substitutions[i].original_ingredient = forbidden[i].name
             /\ unit_result.substitutions[i].substituted_ingredient =
                  get_substitution_options(forbidden[i].name, asked_diets[first])[1].name
             /\ unit_result.substitutions[i].substitution_ratio =
                  get_substitution_options(forbidden[i].name, asked_diets[first])[1].ratio

\* flour, which keto and gluten-free forbid with different ratios, and eggs,
\* which neither forbids, under gluten-free listed before keto
C22_FlourUnderGlutenFreeBeforeKeto ==
  /\ pc = "units_done"
  /\ asked_diets = << "gluten-free", "keto" >>
  /\ Len(recipe) = 2 /\ recipe[1].name = "eggs" /\ recipe[2].name = "flour"
  /\ Len(unit_result.unchanged_ingredients) = 1
  /\ Len(unit_result.substitutions) = 1
  /\ unit_result.substitutions[1].substitution_ratio = "1 cup wheat flour = 1 cup almond flour"

\* C24: applied_diets is a permutation of the caller's diets ordered by the
\* priority keto, paleo, vegan, dairy-free, gluten-free, soy-free, egg-free,
\* nut-free, low-fodmap, diets outside that list after all diets of it, diets
\* of equal rank in the caller's order; the diets are processed, and the
\* entries of the change log are written, in that order.
C24_AppliedDietsByPriority ==
  pc = "done" =>
    \E rank \in
         {[d \in Range(asked_diets) |->
             CHOOSE n \in 1..10 :
               << "keto", "paleo", "vegan", "dairy-free", "gluten-free", "soy-free",
                  "egg-free", "nut-free", "low-fodmap", d >>[n] = d
               /\ \A m \in 1..(n - 1) :
                    << "keto", "paleo", "vegan", "dairy-free", "gluten-free", "soy-free",
                       "egg-free", "nut-free", "low-fodmap", d >>[m] # d]} :
      /\ Len(result.applied_diets) = Len(asked_diets)
      /\ \E p \in [1..Len(asked_diets) -> 1..Len(asked_diets)] :
           /\ \A i \in 1..Len(asked_diets) : result.applied_diets[i] = asked_diets[p[i]]
           /\ \A i, j \in 1..Len(asked_diets) :
                i < j => \/ rank[asked_diets[p[i]]] < rank[asked_diets[p[j]]]
                         \/ /\ rank[asked_diets[p[i]]] = rank[asked_diets[p[j]]]
                            /\ p[i] < p[j]
      /\ \A a, b \in 1..Len(result.substitution_history) :
           a < b => \E i, j \in 1..Len(result.applied_diets) :
                      /\ i < j
                      /\ result.substitution_history[a].diet = result.applied_diets[i]
                      /\ result.substitution_history[b].diet = result.applied_diets[j]
      /\ \A a, b \in 1..Len(result.change_log) :
           a < b => \E i, j \in 1..Len(result.applied_diets) :
                      /\ i <= j
                      /\ StartsWith(result.change_log[a],
                                    "[" \o result.applied_diets[i] \o "] Replaced '")
                      /\ StartsWith(result.change_log[b],
                                    "[" \o result.applied_diets[j] \o "] Replaced '")

\* eggs and flour under a diet outside the list, then vegan, then keto: keto
\* replaces the flour before vegan replaces the eggs
C24_KetoListedLast ==
  /\ pc = "done"
  /\ asked_diets = << "pescatarian", "vegan", "keto" >>
  /\ Len(recipe) = 2 /\ recipe[1].name = "eggs" /\ recipe[2].name = "flour"
  /\ result.applied_diets = << "keto", "vegan", "pescatarian" >>
  /\ Len(result.change_log) = 2
  /\ StartsWith(result.change_log[1], "[keto] Replaced 'flour'")
  /\ StartsWith(result.change_log[2], "[vegan] Replaced 'eggs'")

\* C25: in the pass of a diet, an ingredient that the diet forbids and that has
\* not been substituted yet is replaced with a substitution common to that diet
\* and the diets still to come whenever there is one, and with the first option
\* listed for that diet only when there is none.
C25_CommonSubstitutionPreferred ==
  pc = "done" =>
    \A h \in 1..Len(result.substitution_history) :
      \E at \in {i \in 1..Len(result.applied_diets) :
                    /\ result.applied_diets[i] = result.substitution_history[h].diet
                    /\ \A j \in 1..(i - 1) :
                         result.applied_diets[j] # result.substitution_history[h].diet} :
        \A c \in 1..Len(result.substitution_history[h].changes) :
          \E change \in {result.substitution_history[h].changes[c]} :
          \E shared \in
               {{sub_name \in OptionNames(get_substitution_options(change.original,
                                                                   change.diet)) :
                   \A j \in (at + 1)..Len(result.applied_diets) :
                     sub_name \in OptionNames(get_substitution_options(
                                                change.original, result.applied_diets[j]))}} :
            /\ change.diet = result.substitution_history[h].diet
            /\ is_forbidden(change.original, change.diet)
            /\ shared # {} => Lower(change.substitution) \in shared
            /\ shared = {}
                 => change.substitution =
                      get_substitution_options(change.original, change.diet)[1].name

\* flour under gluten-free and keto, which share almond flour and coconut
\* flour: the pass of keto takes coconut flour, the second option of keto
C25_FlourBecomesCoconutFlour ==
  /\ pc = "done"
  /\ asked_diets = << "gluten-free", "keto" >>
  /\ Len(recipe) = 1 /\ recipe[1].name = "flour"
  /\ Len(result.substitution_history) = 1
  /\ result.substitution_history[1].diet = "keto"
  /\ result.substitution_history[1].changes[1].substitution = "coconut flour"

\* C26: canonicalize resolves a name whose normalized form is not empty (1) to
\* the canonical name of the alias group that lists the normalized name, as
\* canonical name or alias; (2) otherwise to the canonical name of the first
\* name of the alias table, in the order the table is written, that matches
\* loosely: one of the two texts contains the other, or the words they share
\* are at least 70% of the words of the one with fewer words; (3) otherwise to
\* the normalized name.  A name the table lists is never resolved by a loose
\* match that comes earlier in the table.
C26_ExactThenFirstFuzzyThenItself ==
  pc = "canonical" /\ _normalize_basic(raw) # "" =>
    \E normalized \in {_normalize_basic(raw)} :
    \E exact \in {{g \in 1..Len(AliasGroups) : normalized \in GroupNames(AliasGroups[g])}} :
      IF exact # {}
      THEN \A g \in exact : canonical = AliasGroups[g].canonical
      ELSE
        \E words \in {Words(normalized)} :
        \E fuzzy \in
             {{entry \in UNION {{<< g, a >> : a \in 0..Len(AliasGroups[g].aliases)} :
                                 g \in 1..Len(AliasGroups)} :
                 \E name \in {IF entry[2] = 0 THEN AliasGroups[entry[1]].canonical
                               ELSE AliasGroups[entry[1]].aliases[entry[2]]} :
                   \/ Contains(normalized, name)
                   \/ Contains(name, normalized)
                   \/ \E name_words \in {Words(name)} :
                      \E fewer \in {Cardinality(words), Cardinality(name_words)} :
                        /\ fewer <= Cardinality(words)
                        /\ fewer <= Cardinality(name_words)
                        /\ 10 * Cardinality(words \cap name_words) >= 7 * fewer}} :
          IF fuzzy # {}
          THEN \E first \in fuzzy :
                 /\ \A entry \in fuzzy :
                      \/ first[1] < entry[1]
                      \/ first[1] = entry[1] /\ first[2] <= entry[2]
                 /\ canonical = AliasGroups[first[1]].canonical
          ELSE canonical = normalized

\* "salt", which the table lists after "unsalted butter", a name that contains
\* it, is resolved to its own group
C26_SaltIsNotButter ==
  /\ pc = "canonical"
  /\ raw = "salt"
  /\ canonical = "salt"
  /\ \E g, h \in 1..Len(AliasGroups) :
       /\ g < h
       /\ "unsalted butter" \in GroupNames(AliasGroups[g])
       /\ AliasGroups[g].canonical = "butter"
       /\ AliasGroups[h].canonical = "salt"

\* C27: transformed_ingredients of the output of transform_recipe has one entry
\* for each ingredient of the input, at the position of the ingredient it
\* stands for, the ingredient itself or its substitute; and every ingredient of
\* the input is once in substitutions or in unchanged_ingredients.
C27_TransformedInPlace ==
  pc = "transformed" =>
    /\ Len(recipe_output.transformed_ingredients) = Len(recipe)
    /\ \A i \in 1..Len(recipe) :
         \/ /\ recipe_output.transformed_ingredients[i].name = recipe[i].name
            /\ \E u \in 1..Len(recipe_output.unchanged_ingredients) :
                 recipe_output.unchanged_ingredients[u].name = recipe[i].name
         \/ \E s \in 1..Len(recipe_output.substitutions) :
              /\ recipe_output.substitutions[s].original_ingredient = recipe[i].name
              /\ recipe_output.substitutions[s].substituted_ingredient =
                   recipe_output.transformed_ingredients[i].name
    /\ Len(recipe_output.substitutions) + Len(recipe_output.unchanged_ingredients)
         = Len(recipe)
    /\ \A i \in 1..Len(recipe) :
         \/ \E s \in 1..Len(recipe_output.substitutions) :
              recipe_output.substitutions[s].original_ingredient = recipe[i].name
         \/ \E u \in 1..Len(recipe_output.unchanged_ingredients) :
              recipe_output.unchanged_ingredients[u].name = recipe[i].name

\* C28: under a list of one diet, apply_composite_diets and
\* process_recipe_with_units substitute the same ingredients, those the diet
\* forbids, and replace each with the first option listed for it under that
\* diet.
C28_SingleDietPassesAgree ==
  Len(asked_diets) = 1 =>
    \E expected \in
         {{<< recipe[i].name,
              get_substitution_options(recipe[i].name, asked_diets[1])[1].name >> :
             i \in {i \in 1..Len(recipe) : is_forbidden(recipe[i].name, asked_diets[1])}}} :
      /\ pc = "units_done"
           => {<< unit_result.substitutions[s].original_ingredient,
                  unit_result.substitutions[s].substituted_ingredient >> :
                 s \in 1..Len(unit_result.substitutions)} = expected
      /\ pc = "done"
           => UNION {{<< result.substitution_history[h].changes[c].original,
                         result.substitution_history[h].changes[c].substitution >> :
                        c \in 1..Len(result.substitution_history[h].changes)} :
                     h \in 1..Len(result.substitution_history)} = expected

\* C29: in every successful ConversionResult, of an identity, of a conversion
\* within one dimension or of one between mass and volume, converted_amount is
\* original_amount times conversion_factor.
C29_FactorGivesConvertedAmount ==
  (pc = "converted" /\ ~ HasRaised(converted) /\ converted.success)
  => converted.converted_amount
       = RatMul(converted.original_amount, converted.conversion_factor)

\* C30: every name and every alias the unit table declares for a unit resolves
\* to that unit: get_unit_type gives the unit's dimension, and convert from it
\* to a unit name of the same dimension succeeds and scales by the unit's
\* factor.
C30_DeclaredNamesResolve ==
  pc = "converted" =>
    \A u \in 1..Len(all_units) :
      given_from \in {all_units[u].name} \cup Range(all_units[u].aliases) =>
        /\ get_unit_type(given_from) = all_units[u].unit_type
        /\ \A v \in 1..Len(all_units) :
             (given_to = all_units[v].name
                /\ all_units[v].unit_type = all_units[u].unit_type)
             => /\ ~ HasRaised(converted)
                /\ converted.success
                /\ converted.converted_amount
                     = RatDiv(RatMul(given_amount, all_units[u].base_factor),
                              all_units[v].base_factor)

====
